---- MODULE Spec2Model ----
(***************************************************************************)
(* Smart session planner: the suggestion engine (candidate generation,     *)
(* conflict filtering, scoring, ranking), the booking endpoints            *)
(* (POST /api/sessions, POST /api/suggestions/accept) and the store they   *)
(* act on.                                                                 *)
(*                                                                         *)
(* Instants are integer minutes; minute 0 is midnight of the day the       *)
(* model starts on.  A Date of the source is such an integer, a "HH:MM"    *)
(* string is the pair <<HH, MM>>.  Scores are exact rationals [num, den].  *)
(***************************************************************************)
EXTENDS Integers, Sequences, FiniteSets, TLC

\* ------------------------------------------------------------------ bounds
\* Weekday (0 = Sunday) of the day the model starts on.
EpochWeekday == 1
\* Sessions the store may hold at most (uuids 1..MaxSessions).
MaxSessions == 2
\* Sessions a drawn store of SpecSuggest holds at most.
MaxInitSessions == 2
\* Existing sessions a scored slot is probed against at most.
MaxExisting == 3
\* Interval starts (in slot intervals) and lengths (in half slot intervals) probed.
ProbeStarts == 3
ProbeLengths == 4
\* The clock starts at StartNow (08:00 of day 0) and stops advancing at MaxNow (10:15).
StartNow == 480
MaxNow == 615
MaxStatSessions == 4

\* --------------------------------------------------------- program constants
MinutesPerDay == 1440
slotInterval == 30
MaxDuration == 480
BufferMinutes == 30
DefaultDuration == 60
DefaultDaysAhead == 7
DefaultLimit == 5

\* null of a string-valued field, and optional values of the other kinds.
NULL == "null"
None == [some |-> FALSE, v |-> 0]
Some(x) == [some |-> TRUE, v |-> x]

\* ------------------------------------------------------------------ helpers
Min(a, b) == IF a <= b THEN a ELSE b
Max(a, b) == IF a >= b THEN a ELSE b
Abs(a) == IF a >= 0 THEN a ELSE -a

\* Date.prototype.setHours(0,0,0,0): midnight of the instant's calendar day.
DayStart(t) == (t \div MinutesPerDay) * MinutesPerDay
\* Date.prototype.getDay()
getDay(t) == (EpochWeekday + (t \div MinutesPerDay)) % 7
\* Date.prototype.getHours()
getHours(t) == (t % MinutesPerDay) \div 60

\* Math.round of the rational num/den (den > 0): halves round up.
MathRound(num, den) == (2 * num + den) \div (2 * den)
\* Number.prototype.toFixed(1) of the non-negative rational num/den, in tenths.
toFixed1(num, den) == (20 * num + den) \div (2 * den)

\* The elements of the finite set S as a sequence, ascending by the key k[x]
\* (k a function on S with distinct integer values).
RECURSIVE SeqBy(_, _)
SeqBy(S, k) ==
    IF S = {} THEN <<>>
    ELSE LET x == CHOOSE y \in S : \A z \in S : k[y] <= k[z]
         IN  <<x>> \o SeqBy(S \ {x}, k)

RECURSIVE Concat(_)
Concat(ss) == IF ss = <<>> THEN <<>> ELSE Head(ss) \o Concat(Tail(ss))

Range(s) == {s[i] : i \in DOMAIN s}

\* ------------------------------------------------------------------- state
VARIABLES
    sessionTypes,         \* store: set of [id, priority] (name and category follow the id)
    availabilityWindows,  \* store: sequence of [dayOfWeek, startTime, endTime], in store order
    sessions,             \* store: set of [id, sessionTypeId, scheduledAt, duration, completed]
    nextId,               \* the next session identifier the store hands out
    now,                  \* the clock: what new Date() returns
    pc,                   \* per request process: where its handler is suspended
    req,                  \* per request process: the request body being handled
    response,             \* the HTTP response a booking handler sent in the last step, if any
    sugg,                 \* the last response of GET /api/suggestions, as the client holds it
    origin,               \* history: session id -> how it was created
    probe                 \* inputs and results of the pure-function specifications

vars == <<sessionTypes, availabilityWindows, sessions, nextId, now, pc, req,
          response, sugg, origin, probe>>

store == <<sessionTypes, availabilityWindows, sessions>>

\* ------------------------------------------------------ conflict detection
\* The interval of a stored session: [scheduledAt, scheduledAt + duration).
SessionEnd(s) == s.scheduledAt + s.duration

\* hasConflict testing only whether the slot starts inside a session.
hasConflict_StartInside(slot, existingSessions) ==
    \E session \in existingSessions :
        slot.start >= session.scheduledAt /\ slot.start < SessionEnd(session)

\* hasConflict with closed intervals: touching intervals conflict.
hasConflict_Closed(slot, existingSessions) ==
    \E session \in existingSessions :
        slot.start <= SessionEnd(session) /\ slot.end >= session.scheduledAt

\* part_006 hasConflict: slot against a list (here: set) of existing sessions.
hasConflict(slot, existingSessions) ==
    \E session \in existingSessions :
        slot.start < SessionEnd(session) /\ slot.end > session.scheduledAt

\* checkConflicts testing only whether the new session starts inside a stored one.
checkConflicts_StartInside(scheduledAt, duration, excludeSessionId, allStored) ==
    {session \in allStored :
        /\ ~excludeSessionId.some \/ session.id # excludeSessionId.v
        /\ session.scheduledAt <= scheduledAt /\ SessionEnd(session) > scheduledAt}

\* part_008 checkConflicts: the stored sessions, other than excludeSessionId,
\* that overlap [scheduledAt, scheduledAt + duration).
checkConflicts(scheduledAt, duration, excludeSessionId, allStored) ==
    LET sessionEnd == scheduledAt + duration
        allSessions == {s \in allStored :
                           ~excludeSessionId.some \/ s.id # excludeSessionId.v}
    IN  {session \in allSessions :
            session.scheduledAt < sessionEnd /\ SessionEnd(session) > scheduledAt}

\* ----------------------------------------------------- suggestion engine
\* include: { sessionType: true } -- the session with its type's priority.
PriorityOf(typeId, types) ==
    IF \E t \in types : t.id = typeId
    THEN (CHOOSE t \in types : t.id = typeId).priority
    ELSE 0

WithType(s, types) ==
    [id |-> s.id, sessionTypeId |-> s.sessionTypeId, scheduledAt |-> s.scheduledAt,
     duration |-> s.duration, completed |-> s.completed,
     priority |-> PriorityOf(s.sessionTypeId, types)]

\* part_006 timeStringToDate: "HH:MM" on the next day, from baseDate on, that
\* falls on dayOfWeek.
timeStringToDate(timeStr, dayOfWeek, baseDate) ==
    LET hours == timeStr[1]
        minutes == timeStr[2]
        currentDay == getDay(baseDate)
        daysUntil == (dayOfWeek - currentDay + 7) % 7
    IN  DayStart(baseDate) + daysUntil * MinutesPerDay + hours * 60 + minutes

\* part_006 getSessionCountOnDay (existingSessions is a sequence).
getSessionCountOnDay(date, existing) ==
    LET dayStart == DayStart(date)
        dayEnd == dayStart + MinutesPerDay - 1
    IN  Len(SelectSeq(existing,
            LAMBDA s : s.scheduledAt >= dayStart /\ s.scheduledAt <= dayEnd))

RECURSIVE PrioritySum(_)
PrioritySum(ss) ==
    IF ss = <<>> THEN 0 ELSE Head(ss).priority + PrioritySum(Tail(ss))

\* The priority load taking the first session's priority for every session of the day.
getPriorityLoadForDay_FirstOnly(date, existing) ==
    LET dayStart == DayStart(date)
        dayEnd == dayStart + MinutesPerDay - 1
        onDay == SelectSeq(existing,
                     LAMBDA s : s.scheduledAt >= dayStart /\ s.scheduledAt <= dayEnd)
    IN  IF onDay = <<>> THEN 0 ELSE Head(onDay).priority * Len(onDay)

\* part_006 getPriorityLoadForDay
getPriorityLoadForDay(date, existing) ==
    LET dayStart == DayStart(date)
        dayEnd == dayStart + MinutesPerDay - 1
    IN  PrioritySum(SelectSeq(existing,
            LAMBDA s : s.scheduledAt >= dayStart /\ s.scheduledAt <= dayEnd))

\* Array.prototype.sort left out: the rows stay in the order given.
SortByTime_Unsorted(rows, descending) == rows

\* Array.prototype.sort((a, b) => a.scheduledAt - b.scheduledAt), or b - a when
\* descending: a stable sort, rows with equal keys keep their order.
RECURSIVE InsertByTime(_, _, _)
InsertByTime(sorted, x, descending) ==
    IF sorted = <<>> THEN <<x>>
    ELSE IF (IF descending THEN Head(sorted).scheduledAt >= x.scheduledAt
                           ELSE Head(sorted).scheduledAt <= x.scheduledAt)
         THEN <<Head(sorted)>> \o InsertByTime(Tail(sorted), x, descending)
         ELSE <<x>> \o sorted

RECURSIVE SortByTimeFrom(_, _, _)
SortByTimeFrom(rows, acc, descending) ==
    IF rows = <<>> THEN acc
    ELSE SortByTimeFrom(Tail(rows), InsertByTime(acc, Head(rows), descending), descending)

SortByTime(rows, descending) == SortByTimeFrom(rows, <<>>, descending)

\* findMany with orderBy scheduledAt: every order of the rows S the store may
\* return (rows with equal scheduledAt come in any order).
FindManyOrdered(S, descending) ==
    {q \in [1..Cardinality(S) -> S] :
        /\ \A i, j \in 1..Cardinality(S) : i # j => q[i] # q[j]
        /\ \A i, j \in 1..Cardinality(S) : i < j =>
              IF descending THEN q[i].scheduledAt >= q[j].scheduledAt
                            ELSE q[i].scheduledAt <= q[j].scheduledAt}

\* part_006 getSessionTypeStats.  averageSpacingDays is the rational
\* num / (den * MinutesPerDay) days when hasAverage, null otherwise;
\* lastScheduled is an optional instant.
RECURSIVE TotalSpacing(_)
TotalSpacing(sorted) ==
    IF Len(sorted) < 2 THEN 0
    ELSE (sorted[2].scheduledAt - sorted[1].scheduledAt) + TotalSpacing(Tail(sorted))

\* The body of getSessionTypeStats after findUnique: rows are the type's
\* sessions as the store returned them (orderBy scheduledAt desc).
SessionTypeStatsOf(sessionType, rows, clock) ==
    LET upcomingSessions == SelectSeq(rows, LAMBDA s : s.scheduledAt >= clock /\ ~s.completed)
        completedSessions == SelectSeq(rows, LAMBDA s : s.completed)
        lastScheduled == IF Len(rows) > 0 THEN Some(rows[1].scheduledAt) ELSE None
        sortedCompleted == SortByTime(completedSessions, FALSE)
        averageSpacingDays ==
            IF Len(completedSessions) >= 2
            THEN [num |-> TotalSpacing(sortedCompleted), den |-> Len(sortedCompleted) - 1]
            ELSE [num |-> 0, den |-> 1]
    IN  [id |-> sessionType.id, priority |-> sessionType.priority,
         lastScheduled |-> lastScheduled,
         upcomingCount |-> Len(upcomingSessions),
         completedCount |-> Len(completedSessions),
         hasAverage |-> Len(completedSessions) >= 2,
         averageSpacingDays |-> averageSpacingDays]

\* getSessionTypeStats for a type that resolves (the result is the same for
\* every order the store may return, which SpecStats checks on every order).
getSessionTypeStats(sessionTypeId, types, stored, clock) ==
    LET sessionType == CHOOSE t \in types : t.id = sessionTypeId
        own == {s \in stored : s.sessionTypeId = sessionTypeId}
        rows == CHOOSE q \in FindManyOrdered(own, TRUE) : TRUE
    IN  SessionTypeStatsOf(sessionType, rows, clock)

\* The while loop testing the slot's start, not its end, against the window end.
RECURSIVE SlotsInWindow_Overrun(_, _, _, _, _)
SlotsInWindow_Overrun(slotStart, windowEnd, sessionDuration, dayOfWeek, clock) ==
    IF slotStart <= windowEnd
    THEN (IF slotStart > clock
          THEN <<[start |-> slotStart, end |-> slotStart + sessionDuration,
                  dayOfWeek |-> dayOfWeek]>>
          ELSE <<>>)
         \o SlotsInWindow_Overrun(slotStart + slotInterval, windowEnd, sessionDuration,
                                  dayOfWeek, clock)
    ELSE <<>>

\* part_006 generateCandidateSlots, the while loop of one window.
RECURSIVE SlotsInWindow(_, _, _, _, _)
SlotsInWindow(slotStart, windowEnd, sessionDuration, dayOfWeek, clock) ==
    IF slotStart + sessionDuration <= windowEnd
    THEN (IF slotStart > clock
          THEN <<[start |-> slotStart, end |-> slotStart + sessionDuration,
                  dayOfWeek |-> dayOfWeek]>>
          ELSE <<>>)
         \o SlotsInWindow(slotStart + slotInterval, windowEnd, sessionDuration,
                          dayOfWeek, clock)
    ELSE <<>>

\* The slots of one availability window on the date currentDate.
WindowSlots(window, dayOfWeek, currentDate, sessionDuration, clock) ==
    LET windowStart == timeStringToDate(window.startTime, dayOfWeek, currentDate)
        windowEnd == timeStringToDate(window.endTime, dayOfWeek, currentDate)
    IN  IF windowEnd < clock THEN <<>>
        ELSE SlotsInWindow(windowStart, windowEnd, sessionDuration, dayOfWeek, clock)

\* The slots of one day offset.
DaySlots(dayOffset, windows, sessionDuration, clock) ==
    LET today == DayStart(clock)
        currentDate == today + dayOffset * MinutesPerDay
        dayOfWeek == getDay(currentDate)
        windowsForDay == SelectSeq(windows, LAMBDA w : w.dayOfWeek = dayOfWeek)
    IN  Concat([i \in 1..Len(windowsForDay) |->
                  WindowSlots(windowsForDay[i], dayOfWeek, currentDate,
                              sessionDuration, clock)])

\* part_006 generateCandidateSlots
generateCandidateSlots(daysAhead, sessionDuration, windows, clock) ==
    IF daysAhead <= 0 THEN <<>>
    ELSE Concat([d \in 1..daysAhead |-> DaySlots(d - 1, windows, sessionDuration, clock)])


\* Factor 5 with the low-priority afternoon bonus larger than a priority step.
timeOfDayBonus_Large(priority, hour) ==
    IF priority >= 4 /\ hour >= 6 /\ hour <= 10 THEN 10
    ELSE IF priority <= 2 /\ hour >= 14 /\ hour <= 18 THEN 25
    ELSE 0

\* part_006 scoreTimeSlot, factor 5: the points for the slot's hour of day.
timeOfDayBonus(priority, hour) ==
    IF priority >= 4 /\ hour >= 6 /\ hour <= 10 THEN 10
    ELSE IF priority <= 2 /\ hour >= 14 /\ hour <= 18 THEN 10
    ELSE 0

\* part_006 scoreTimeSlot.  existingSessions is a sequence of sessions with
\* their type's priority; clock is what new Date() returns in factor 6.  The
\* score is the rational num/den with den = MinutesPerDay * (denominator of
\* the average spacing); reasons are listed in the order they are pushed.
scoreTimeSlot(slot, sessionTypeStats, existingSessions, clock) ==
    LET avg == sessionTypeStats.averageSpacingDays
        hasLast == sessionTypeStats.lastScheduled.some
        last == sessionTypeStats.lastScheduled.v
        K == avg.den
        U == MinutesPerDay * K
        priority == sessionTypeStats.priority
        \* factor 1: priority
        priorityScore == priority * 20 * U
        r1 == IF priority >= 4 THEN << <<"High priority", priority>> >> ELSE <<>>
        \* factor 2: recency (sinceLast = daysSinceLastScheduled in minutes)
        sinceLast == slot.start - last
        recencyScore == IF hasLast THEN Min(sinceLast * 5 * K, 50 * U) ELSE 30 * U
        r2 == IF hasLast
              THEN (IF sinceLast >= 2 * MinutesPerDay
                    THEN << <<"Good spacing", toFixed1(sinceLast, MinutesPerDay)>> >>
                    ELSE <<>>)
              ELSE << <<"First time scheduling this session type">> >>
        \* factor 3: spacing consistency (a zero average is falsy)
        hasSpacing == sessionTypeStats.hasAverage /\ avg.num # 0 /\ hasLast
        spacingDiff == IF hasSpacing THEN Abs(sinceLast * K - avg.num) ELSE 0
        spacingScore == IF hasSpacing THEN Max(0, 30 * U - spacingDiff * 5) ELSE 0
        r3 == IF hasSpacing /\ 2 * spacingDiff < U
              THEN << <<"Matches your usual spacing", toFixed1(avg.num, U)>> >>
              ELSE <<>>
        \* factor 4: daily load
        sessionsOnDay == getSessionCountOnDay(slot.start, existingSessions)
        priorityLoadOnDay == getPriorityLoadForDay(slot.start, existingSessions)
        sessionCountPenalty == sessionsOnDay * 15 * U
        priorityLoadPenalty == priorityLoadOnDay * 5 * U
        r4a == IF sessionsOnDay = 0 THEN << <<"No other sessions scheduled this day">> >>
               ELSE IF sessionsOnDay >= 3 THEN << <<"Day already has sessions", sessionsOnDay>> >>
               ELSE <<>>
        r4b == IF priorityLoadOnDay >= 15
               THEN << <<"High priority load", priorityLoadOnDay>> >> ELSE <<>>
        \* factor 5: time of day
        hour == getHours(slot.start)
        morning == priority >= 4 /\ hour >= 6 /\ hour <= 10
        afternoon == ~morning /\ priority <= 2 /\ hour >= 14 /\ hour <= 18
        timeScore == timeOfDayBonus(priority, hour) * U
        r5 == IF morning THEN << <<"Morning time slot">> >>
              ELSE IF afternoon THEN << <<"Afternoon time slot">> >>
              ELSE <<>>
        \* factor 6: urgency
        urgencyScore == Max(0, 40 * U - (slot.start - clock) * 3 * K)
        \* factor 7: buffer time
        hasBufferBefore ==
            ~\E i \in DOMAIN existingSessions :
                LET timeDiff == slot.start - SessionEnd(existingSessions[i])
                IN  timeDiff > 0 /\ timeDiff < BufferMinutes
        hasBufferAfter ==
            ~\E i \in DOMAIN existingSessions :
                LET timeDiff == existingSessions[i].scheduledAt - slot.end
                IN  timeDiff > 0 /\ timeDiff < BufferMinutes
        buffer == hasBufferBefore /\ hasBufferAfter
        bufferScore == IF buffer THEN 15 * U ELSE 0
        r7 == IF buffer THEN << <<"Good buffer time around session">> >> ELSE <<>>
    IN  [start |-> slot.start, end |-> slot.end, dayOfWeek |-> slot.dayOfWeek,
         score |-> [num |-> priorityScore + recencyScore + spacingScore
                            - sessionCountPenalty - priorityLoadPenalty
                            + timeScore + urgencyScore + bufferScore,
                    den |-> U],
         reasons |-> r1 \o r2 \o r3 \o r4a \o r4b \o r5 \o r7]

\* The comparator (a, b) => b.score - a.score is negative, zero or positive.
ScoreLess(a, b) == a.num * b.den < b.num * a.den

\* The sort with the comparator reversed, (a, b) => a.score - b.score.
RECURSIVE InsertSorted_Ascending(_, _)
InsertSorted_Ascending(sorted, x) ==
    IF sorted = <<>> THEN <<x>>
    ELSE IF ScoreLess(x.score, Head(sorted).score)
         THEN <<x>> \o sorted
         ELSE <<Head(sorted)>> \o InsertSorted_Ascending(Tail(sorted), x)

\* An unstable sort: an element goes before the elements of equal score.
RECURSIVE InsertSorted_Unstable(_, _)
InsertSorted_Unstable(sorted, x) ==
    IF sorted = <<>> THEN <<x>>
    ELSE IF ~ScoreLess(x.score, Head(sorted).score)
         THEN <<x>> \o sorted
         ELSE <<Head(sorted)>> \o InsertSorted_Unstable(Tail(sorted), x)

\* Array.prototype.sort with (a, b) => b.score - a.score: a stable sort, so an
\* element goes after every element already placed whose score is not lower.
RECURSIVE InsertSorted(_, _)
InsertSorted(sorted, x) ==
    IF sorted = <<>> THEN <<x>>
    ELSE IF ScoreLess(Head(sorted).score, x.score)
         THEN <<x>> \o sorted
         ELSE <<Head(sorted)>> \o InsertSorted(Tail(sorted), x)

RECURSIVE SortFrom(_, _)
SortFrom(sorted, rest) ==
    IF rest = <<>> THEN sorted
    ELSE SortFrom(InsertSorted(sorted, Head(rest)), Tail(rest))

SortByScore(scoredSlots) == SortFrom(<<>>, scoredSlots)

\* Array.prototype.slice(0, end): a negative end counts from the end.
Slice0(arr, end) ==
    LET k == IF end < 0 THEN Max(Len(arr) + end, 0) ELSE Min(end, Len(arr))
    IN  SubSeq(arr, 1, k)

\* parseInt(searchParams.get(name) || dflt) for an absent or integer parameter.
ParseParam(p, dflt) == IF p.some THEN p.v ELSE dflt

\* The sessions of the store in store order (by identifier), with their type.
ExistingFrom(stored, types) ==
    LET S == {WithType(s, types) : s \in stored}
    IN  SeqBy(S, [s \in S |-> s.id])

\* The early return for no available slot answering with an error status.
NoSlotsResponse_Error ==
    [status |-> 404, suggestions |-> <<>>,
     message |-> "No available time slots found within your availability windows"]

\* part_006 GET: the early return when no slot is available (status 200 by default).
NoSlotsResponse ==
    [status |-> 200, suggestions |-> <<>>,
     message |-> "No available time slots found within your availability windows"]

\* part_006 GET /api/suggestions: the response for the given query over the
\* given store and clock.  universe, candidates and gen (a suggestion's index
\* in the candidate list) and sortScore (the unrounded score) are recorded
\* with the response for the properties; the client sees the other fields.
SuggestionsResponse(sessionTypeId, durationParam, daysAheadParam, limitParam, types, windows, stored, clock) ==
    LET duration == ParseParam(durationParam, DefaultDuration)
        daysAhead == ParseParam(daysAheadParam, DefaultDaysAhead)
        limit == ParseParam(limitParam, DefaultLimit)
        Fail(code, msg) ==
            [status |-> code, message |-> msg, suggestions |-> <<>>, universe |-> {},
             candidates |-> <<>>, available |-> 0, limit |-> limit,
             duration |-> duration, daysAhead |-> daysAhead, clock |-> clock,
             sessionTypeId |-> sessionTypeId]
    IN  IF sessionTypeId = NULL
        THEN Fail(400, "sessionTypeId query parameter is required")
        ELSE IF duration <= 0 \/ duration > MaxDuration
        THEN Fail(400, "duration must be between 1 and 480 minutes")
        ELSE IF ~\E t \in types : t.id = sessionTypeId
        THEN Fail(500, "Session type not found")
        ELSE
        LET sessionTypeStats == getSessionTypeStats(sessionTypeId, types, stored, clock)
            universe == {s \in stored : s.scheduledAt >= clock}
            existingSessions == ExistingFrom(universe, types)
            candidateSlots == generateCandidateSlots(daysAhead, duration, windows, clock)
            availableIdx == SelectSeq([i \in 1..Len(candidateSlots) |-> i],
                                LAMBDA i : ~hasConflict(candidateSlots[i], universe))
            scoredSlots ==
                [j \in 1..Len(availableIdx) |->
                    [gen |-> availableIdx[j]] @@
                    scoreTimeSlot(candidateSlots[availableIdx[j]], sessionTypeStats,
                                  existingSessions, clock)]
            top == Slice0(SortByScore(scoredSlots), limit)
            topSuggestions ==
                [index \in 1..Len(top) |->
                    [rank |-> index,
                     sessionTypeId |-> sessionTypeStats.id,
                     suggestedStart |-> top[index].start,
                     suggestedEnd |-> top[index].end,
                     duration |-> duration,
                     score |-> MathRound(top[index].score.num, top[index].score.den),
                     reasons |-> top[index].reasons,
                     sortScore |-> top[index].score,
                     gen |-> top[index].gen]]
        IN  (IF Len(availableIdx) = 0
             THEN NoSlotsResponse
             ELSE [status |-> 200, message |-> NULL, suggestions |-> topSuggestions])
            @@
            [universe |-> universe, candidates |-> candidateSlots,
             available |-> Len(availableIdx), limit |-> limit,
             duration |-> duration, daysAhead |-> daysAhead, clock |-> clock,
             sessionTypeId |-> sessionTypeId]


\* ----------------------------------------------------------- the requests
Procs == {"a", "b"}

\* A "HH:MM" string.
HHMM(h, m) == <<h, m>>

Window(d, s, e) == [dayOfWeek |-> d, startTime |-> s, endTime |-> e]

\* A stored session without its identifier.
Stored(t, at, d, c) ==
    [sessionTypeId |-> t, scheduledAt |-> at, duration |-> d, completed |-> c]

\* The session types of the seeded store: a high- and a low-priority one.
SeedTypes == {[id |-> "t1", priority |-> 5], [id |-> "t2", priority |-> 2]}

\* Request bodies of POST /api/sessions.
IsoDate(t) == [kind |-> "iso", t |-> t]
Body(t, at, d, c) ==
    [sessionTypeId |-> t, scheduledAt |-> at, duration |-> d, checkConflict |-> c]
\* checkConflict is optional in the body.
ValidBodies ==
    {Body("t1", IsoDate(at), 60, c) :
        at \in {540, 570, 600}, c \in {None, Some(TRUE), Some(FALSE)}}
\* One body per validation failure: no type id, an unknown type, no date, a
\* date that does not parse, a duration that is not positive.
InvalidBodies ==
    {Body(NULL, IsoDate(540), 60, None),
     Body("tX", IsoDate(540), 60, None),
     Body("t1", [kind |-> "missing", t |-> 0], 60, None),
     Body("t1", [kind |-> "invalid", t |-> 0], 60, None),
     Body("t1", IsoDate(540), 0, None)}

Idle == [kind |-> "none"]

\* const { ..., checkConflict = true } = body
CheckConflictOf(body) == IF body.checkConflict.some THEN body.checkConflict.v ELSE TRUE
NoResponse == [proc |-> "none", handler |-> "none", status |-> 0]
NoSuggestions == [asOf |-> 0, status |-> 0, suggestions |-> <<>>]
NoProbe == [kind |-> "none"]

InFlight == Cardinality({p \in Procs : pc[p] # "idle"})

\* prisma.session.create: the new row (completed defaults to false).
NewSession(id, body) ==
    [id |-> id, sessionTypeId |-> body.sessionTypeId, scheduledAt |-> body.scheduledAt.t,
     duration |-> body.duration, completed |-> FALSE]

\* The body validation without the session-type lookup.
BodyError_NoTypeLookup(body, types) ==
    IF body.sessionTypeId = NULL
    THEN [status |-> 400, error |-> "sessionTypeId is required and must be a string"]
    ELSE IF body.scheduledAt.kind = "missing"
    THEN [status |-> 400, error |-> "scheduledAt is required (ISO 8601 date string)"]
    ELSE IF body.scheduledAt.kind = "invalid"
    THEN [status |-> 400, error |-> "scheduledAt must be a valid ISO 8601 date string"]
    ELSE IF body.duration <= 0
    THEN [status |-> 400, error |-> "duration must be a positive number (in minutes)"]
    ELSE [status |-> 0, error |-> NULL]

\* The body validation shared by both booking handlers, after the type lookup:
\* the 4xx response, or status 0 for a valid body.
BodyError(body, types) ==
    IF body.sessionTypeId = NULL
    THEN [status |-> 400, error |-> "sessionTypeId is required and must be a string"]
    ELSE IF ~\E t \in types : t.id = body.sessionTypeId
    THEN [status |-> 404, error |-> "Session type not found"]
    ELSE IF body.scheduledAt.kind = "missing"
    THEN [status |-> 400, error |-> "scheduledAt is required (ISO 8601 date string)"]
    ELSE IF body.scheduledAt.kind = "invalid"
    THEN [status |-> 400, error |-> "scheduledAt must be a valid ISO 8601 date string"]
    ELSE IF body.duration <= 0
    THEN [status |-> 400, error |-> "duration must be a positive number (in minutes)"]
    ELSE [status |-> 0, error |-> NULL]

\* part_008 POST, up to the first store read it awaits: validation and the
\* session-type lookup.
PostLookup(p, body) ==
    /\ pc[p] = "idle"
    /\ nextId + InFlight <= MaxSessions
    /\ LET err == BodyError(body, sessionTypes)
       IN  IF err.status # 0
           THEN /\ response' = [proc |-> p, handler |-> "sessions"] @@ err
                /\ UNCHANGED <<pc, req>>
           ELSE /\ pc' = [pc EXCEPT ![p] = IF CheckConflictOf(body) THEN "check" ELSE "create"]
                /\ req' = [req EXCEPT ![p] = body]
                /\ response' = NoResponse
    /\ UNCHANGED <<store, nextId, now, sugg, origin, probe>>

\* part_008 POST: await checkConflicts(scheduledDate, duration).
PostCheck(p) ==
    /\ pc[p] = "check"
    /\ LET conflictingSessions ==
               checkConflicts(req[p].scheduledAt.t, req[p].duration, None, sessions)
       IN  IF conflictingSessions # {}
           THEN /\ response' = [proc |-> p, handler |-> "sessions", status |-> 409,
                                error |-> "Session conflicts with existing sessions",
                                conflicts |-> {[id |-> s.id, sessionType |-> s.sessionTypeId,
                                                scheduledAt |-> s.scheduledAt,
                                                duration |-> s.duration]
                                               : s \in conflictingSessions}]
                /\ pc' = [pc EXCEPT ![p] = "idle"]
                /\ req' = [req EXCEPT ![p] = Idle]
           ELSE /\ pc' = [pc EXCEPT ![p] = "create"]
                /\ response' = NoResponse
                /\ UNCHANGED req
    /\ UNCHANGED <<store, nextId, now, sugg, origin, probe>>

\* The foreign key Session.sessionTypeId -> SessionType.id: a row naming a
\* type that is not stored is refused by the store.
ForeignKeyHolds(sessionTypeId, types) == \E t \in types : t.id = sessionTypeId

\* part_008 POST: await prisma.session.create(...) and the 201 response; the
\* create throws when the type was deleted since the lookup, and the catch
\* answers 500.
PostCreate(p) ==
    /\ pc[p] = "create"
    /\ IF ForeignKeyHolds(req[p].sessionTypeId, sessionTypes)
       THEN /\ sessions' = sessions \cup {NewSession(nextId, req[p])}
            /\ nextId' = nextId + 1
            /\ origin' = Append(origin, [via |-> IF CheckConflictOf(req[p])
                                                 THEN "checked" ELSE "unchecked",
                                         basis |-> 0])
            /\ response' = [proc |-> p, handler |-> "sessions", status |-> 201,
                            session |-> NewSession(nextId, req[p])]
       ELSE /\ response' = [proc |-> p, handler |-> "sessions", status |-> 500,
                            error |-> "Failed to create session"]
            /\ UNCHANGED <<sessions, nextId, origin>>
    /\ pc' = [pc EXCEPT ![p] = "idle"]
    /\ req' = [req EXCEPT ![p] = Idle]
    /\ UNCHANGED <<sessionTypes, availabilityWindows, now, sugg, probe>>

\* DashboardScreen handleAccept: the body sent for the i-th suggestion the
\* client holds.  basis records, for the properties, the identifier the store
\* was about to hand out when the suggestion was computed.
handleAccept(i) ==
    [sessionTypeId |-> sugg.suggestions[i].sessionTypeId,
     scheduledAt |-> IsoDate(sugg.suggestions[i].suggestedStart),
     duration |-> sugg.suggestions[i].duration,
     checkConflict |-> Some(FALSE),
     basis |-> sugg.asOf]

\* part_007 POST /api/suggestions/accept, up to the session-type lookup.
AcceptLookup(p, i) ==
    /\ pc[p] = "idle"
    /\ nextId + InFlight <= MaxSessions
    /\ sugg.status = 200
    /\ i \in DOMAIN sugg.suggestions
    /\ LET body == handleAccept(i)
           err == BodyError(body, sessionTypes)
       IN  IF err.status # 0
           THEN /\ response' = [proc |-> p, handler |-> "accept"] @@ err
                /\ UNCHANGED <<pc, req>>
           ELSE /\ pc' = [pc EXCEPT ![p] = "acceptCreate"]
                /\ req' = [req EXCEPT ![p] = body]
                /\ response' = NoResponse
    /\ UNCHANGED <<store, nextId, now, sugg, origin, probe>>

\* part_007 POST: await prisma.session.create(...), with no conflict check.
AcceptCreate(p) ==
    /\ pc[p] = "acceptCreate"
    /\ IF ForeignKeyHolds(req[p].sessionTypeId, sessionTypes)
       THEN /\ sessions' = sessions \cup {NewSession(nextId, req[p])}
            /\ nextId' = nextId + 1
            /\ origin' = Append(origin, [via |-> "accept", basis |-> req[p].basis])
            /\ response' = [proc |-> p, handler |-> "accept", status |-> 201,
                            session |-> NewSession(nextId, req[p])]
       ELSE /\ response' = [proc |-> p, handler |-> "accept", status |-> 500,
                            error |-> "Failed to accept suggestion"]
            /\ UNCHANGED <<sessions, nextId, origin>>
    /\ pc' = [pc EXCEPT ![p] = "idle"]
    /\ req' = [req EXCEPT ![p] = Idle]
    /\ UNCHANGED <<sessionTypes, availabilityWindows, now, sugg, probe>>

\* GET /api/suggestions also booking its first suggestion.
GetSuggestions_Reserving(sessionTypeId, duration, daysAhead, limit) ==
    LET r == SuggestionsResponse(sessionTypeId, duration, daysAhead, limit,
                                 sessionTypes, availabilityWindows, sessions, now)
    IN  /\ sugg' = [asOf |-> nextId] @@ r
        /\ sessions' =
              IF Len(r.suggestions) > 0
              THEN sessions \cup {[id |-> nextId, sessionTypeId |-> sessionTypeId,
                                   scheduledAt |-> r.suggestions[1].suggestedStart,
                                   duration |-> r.suggestions[1].duration,
                                   completed |-> FALSE]}
              ELSE sessions
        /\ response' = NoResponse
        /\ UNCHANGED <<sessionTypes, availabilityWindows, nextId, now, pc, req, origin, probe>>

\* part_006 GET /api/suggestions.
GetSuggestions(sessionTypeId, duration, daysAhead, limit) ==
    /\ sugg' = [asOf |-> nextId] @@
               SuggestionsResponse(sessionTypeId, duration, daysAhead, limit,
                                   sessionTypes, availabilityWindows, sessions, now)
    /\ response' = NoResponse
    /\ UNCHANGED <<store, nextId, now, pc, req, origin, probe>>

\* Time passes.
Tick ==
    /\ now < MaxNow
    /\ now' = MaxNow
    /\ response' = NoResponse
    /\ UNCHANGED <<store, nextId, pc, req, sugg, origin, probe>>

\* ------------------------------------------------- the booking system
Init ==
    /\ sessionTypes = SeedTypes
    /\ availabilityWindows = <<Window(getDay(0), HHMM(9, 0), HHMM(11, 0))>>
    /\ sessions = {}
    /\ nextId = 1
    /\ now = StartNow
    /\ pc = [p \in Procs |-> "idle"]
    /\ req = [p \in Procs |-> Idle]
    /\ response = NoResponse
    /\ sugg = NoSuggestions
    /\ origin = <<>>
    /\ probe = NoProbe

Next ==
    \/ \E p \in Procs, body \in ValidBodies \cup InvalidBodies : PostLookup(p, body)
    \/ \E p \in Procs : PostCheck(p)
    \/ \E p \in Procs : PostCreate(p)
    \/ \E p \in Procs : \E i \in 1..2 : AcceptLookup(p, i)
    \/ \E p \in Procs : AcceptCreate(p)
    \/ \E l \in {1, 2} : GetSuggestions("t1", None, Some(1), Some(l))
    \/ Tick

Spec == Init /\ [][Next]_vars


\* ------------------------------------- session types and their sessions
\* The identifier (a uuid) the store gives the n-th row it creates, when
\* that row is a session type.
TypeName(n) == <<"n1", "n2", "n3", "n4", "n5", "n6">>[n]

\* session-types/route.ts POST: validation and prisma.sessionType.create.
\* body is [named, priority]: whether name and category are given as
\* non-empty strings, and the priority.
TypePost(p, body) ==
    /\ pc[p] = "idle"
    /\ nextId + InFlight <= MaxSessions
    /\ IF ~body.named
       THEN /\ response' = [proc |-> p, handler |-> "typePost", status |-> 400,
                            error |-> "Name is required and must be a string"]
            /\ UNCHANGED <<sessionTypes, nextId, origin>>
       ELSE IF body.priority < 1 \/ body.priority > 5
       THEN /\ response' = [proc |-> p, handler |-> "typePost", status |-> 400,
                            error |-> "Priority must be a number between 1 and 5"]
            /\ UNCHANGED <<sessionTypes, nextId, origin>>
       ELSE /\ sessionTypes' =
                  sessionTypes \cup {[id |-> TypeName(nextId), priority |-> body.priority]}
            /\ nextId' = nextId + 1
            /\ origin' = Append(origin, [via |-> "type", basis |-> 0])
            /\ response' = [proc |-> p, handler |-> "typePost", status |-> 201,
                            id |-> TypeName(nextId)]
    /\ UNCHANGED <<availabilityWindows, sessions, now, pc, req, sugg, probe>>

\* session-types/[id]/route.ts PUT, up to the update it awaits: findUnique
\* and validation.  body is [priority], an optional number.
TypePutFind(p, id, body) ==
    /\ pc[p] = "idle"
    /\ IF ~\E x \in sessionTypes : x.id = id
       THEN /\ response' = [proc |-> p, handler |-> "typePut", status |-> 404,
                            error |-> "Session type not found"]
            /\ UNCHANGED <<pc, req>>
       ELSE IF body.priority.some /\ (body.priority.v < 1 \/ body.priority.v > 5)
       THEN /\ response' = [proc |-> p, handler |-> "typePut", status |-> 400,
                            error |-> "Priority must be a number between 1 and 5"]
            /\ UNCHANGED <<pc, req>>
       ELSE /\ pc' = [pc EXCEPT ![p] = "typeUpdate"]
            /\ req' = [req EXCEPT ![p] = [kind |-> "typePut", id |-> id,
                                          priority |-> body.priority]]
            /\ response' = NoResponse
    /\ UNCHANGED <<store, nextId, now, sugg, origin, probe>>

\* PUT: await prisma.sessionType.update(...); it throws when the row is gone.
TypePutUpdate(p) ==
    /\ pc[p] = "typeUpdate"
    /\ IF \E x \in sessionTypes : x.id = req[p].id
       THEN /\ sessionTypes' =
                  {IF x.id = req[p].id /\ req[p].priority.some
                   THEN [x EXCEPT !.priority = req[p].priority.v] ELSE x : x \in sessionTypes}
            /\ response' = [proc |-> p, handler |-> "typePut", status |-> 200]
       ELSE /\ response' = [proc |-> p, handler |-> "typePut", status |-> 500,
                            error |-> "Failed to update session type"]
            /\ UNCHANGED sessionTypes
    /\ pc' = [pc EXCEPT ![p] = "idle"]
    /\ req' = [req EXCEPT ![p] = Idle]
    /\ UNCHANGED <<availabilityWindows, sessions, nextId, now, sugg, origin, probe>>

\* session-types/[id]/route.ts DELETE, up to the delete it awaits.
TypeDeleteFind(p, id) ==
    /\ pc[p] = "idle"
    /\ IF ~\E x \in sessionTypes : x.id = id
       THEN /\ response' = [proc |-> p, handler |-> "typeDelete", status |-> 404,
                            error |-> "Session type not found"]
            /\ UNCHANGED <<pc, req>>
       ELSE /\ pc' = [pc EXCEPT ![p] = "typeDelete"]
            /\ req' = [req EXCEPT ![p] = [kind |-> "typeDelete", id |-> id]]
            /\ response' = NoResponse
    /\ UNCHANGED <<store, nextId, now, sugg, origin, probe>>

\* The delete leaving the type's sessions in the store.
TypeDelete_NoCascade(p) ==
    /\ pc[p] = "typeDelete"
    /\ sessionTypes' = {x \in sessionTypes : x.id # req[p].id}
    /\ response' = [proc |-> p, handler |-> "typeDelete", status |-> 200]
    /\ pc' = [pc EXCEPT ![p] = "idle"]
    /\ req' = [req EXCEPT ![p] = Idle]
    /\ UNCHANGED <<availabilityWindows, sessions, nextId, now, sugg, origin, probe>>

\* DELETE: await prisma.sessionType.delete(...), which cascades to the
\* type's sessions; it throws when the row is gone.
TypeDelete(p) ==
    /\ pc[p] = "typeDelete"
    /\ IF \E x \in sessionTypes : x.id = req[p].id
       THEN /\ sessionTypes' = {x \in sessionTypes : x.id # req[p].id}
            /\ sessions' = {s \in sessions : s.sessionTypeId # req[p].id}
            /\ response' = [proc |-> p, handler |-> "typeDelete", status |-> 200]
       ELSE /\ response' = [proc |-> p, handler |-> "typeDelete", status |-> 500,
                            error |-> "Failed to delete session type"]
            /\ UNCHANGED <<sessionTypes, sessions>>
    /\ pc' = [pc EXCEPT ![p] = "idle"]
    /\ req' = [req EXCEPT ![p] = Idle]
    /\ UNCHANGED <<availabilityWindows, nextId, now, sugg, origin, probe>>

\* A JSON value supplied for completed: a boolean, or a value of another type.
JsonBoolean(b) == [kind |-> "boolean", b |-> b]
JsonString == [kind |-> "string", b |-> FALSE]

\* PUT storing completed before the other supplied fields are validated.
SessionPutFind_Partial(p, id, body) ==
    /\ pc[p] = "idle"
    /\ IF ~\E s \in sessions : s.id = id
       THEN /\ response' = [proc |-> p, handler |-> "sessionPut", status |-> 404,
                            error |-> "Session not found", id |-> id, body |-> body]
            /\ UNCHANGED <<pc, req, sessions>>
       ELSE IF body.completed.some /\ body.completed.v.kind # "boolean"
       THEN /\ response' = [proc |-> p, handler |-> "sessionPut", status |-> 400,
                            error |-> "completed must be a boolean", id |-> id, body |-> body]
            /\ UNCHANGED <<pc, req, sessions>>
       ELSE IF \/ body.scheduledAt.some /\ body.scheduledAt.v.kind = "invalid"
               \/ body.duration.some /\ body.duration.v <= 0
       THEN /\ response' = [proc |-> p, handler |-> "sessionPut", status |-> 400,
                            error |-> "invalid field", id |-> id, body |-> body]
            /\ sessions' = {IF s.id = id /\ body.completed.some
                            THEN [s EXCEPT !.completed = body.completed.v.b] ELSE s :
                               s \in sessions}
            /\ UNCHANGED <<pc, req>>
       ELSE /\ pc' = [pc EXCEPT ![p] = "sessionUpdate"]
            /\ req' = [req EXCEPT ![p] = [kind |-> "sessionPut", id |-> id,
                                          updateData |-> body]]
            /\ response' = NoResponse
            /\ UNCHANGED sessions
    /\ UNCHANGED <<sessionTypes, availabilityWindows, nextId, now, sugg, origin, probe>>

\* sessions/[id]/route.ts PUT, up to the update it awaits: findUnique and
\* validation.  body is [completed, scheduledAt, duration], each optional;
\* the responses record the request (id, body) for the properties.
SessionPutFind(p, id, body) ==
    /\ pc[p] = "idle"
    /\ IF ~\E s \in sessions : s.id = id
       THEN /\ response' = [proc |-> p, handler |-> "sessionPut", status |-> 404,
                            error |-> "Session not found", id |-> id, body |-> body]
            /\ UNCHANGED <<pc, req>>
       ELSE IF body.completed.some /\ body.completed.v.kind # "boolean"
       THEN /\ response' = [proc |-> p, handler |-> "sessionPut", status |-> 400,
                            error |-> "completed must be a boolean",
                            id |-> id, body |-> body]
            /\ UNCHANGED <<pc, req>>
       ELSE IF body.scheduledAt.some /\ body.scheduledAt.v.kind = "invalid"
       THEN /\ response' = [proc |-> p, handler |-> "sessionPut", status |-> 400,
                            error |-> "scheduledAt must be a valid ISO 8601 date string",
                            id |-> id, body |-> body]
            /\ UNCHANGED <<pc, req>>
       ELSE IF body.duration.some /\ body.duration.v <= 0
       THEN /\ response' = [proc |-> p, handler |-> "sessionPut", status |-> 400,
                            error |-> "duration must be a positive number (in minutes)",
                            id |-> id, body |-> body]
            /\ UNCHANGED <<pc, req>>
       ELSE /\ pc' = [pc EXCEPT ![p] = "sessionUpdate"]
            /\ req' = [req EXCEPT ![p] = [kind |-> "sessionPut", id |-> id,
                                          updateData |-> body]]
            /\ response' = NoResponse
    /\ UNCHANGED <<store, nextId, now, sugg, origin, probe>>

\* prisma.session.update({ data: updateData }) on one row.
UpdatedSession(s, updateData) ==
    [id |-> s.id, sessionTypeId |-> s.sessionTypeId,
     scheduledAt |-> IF updateData.scheduledAt.some
                     THEN updateData.scheduledAt.v.t ELSE s.scheduledAt,
     duration |-> IF updateData.duration.some THEN updateData.duration.v ELSE s.duration,
     completed |-> IF updateData.completed.some THEN updateData.completed.v.b ELSE s.completed]

\* PUT: await prisma.session.update(...); it throws when the row is gone.
SessionPutUpdate(p) ==
    /\ pc[p] = "sessionUpdate"
    /\ IF \E s \in sessions : s.id = req[p].id
       THEN /\ sessions' = {IF s.id = req[p].id
                            THEN UpdatedSession(s, req[p].updateData) ELSE s : s \in sessions}
            /\ response' = [proc |-> p, handler |-> "sessionPut", status |-> 200,
                            id |-> req[p].id, body |-> req[p].updateData]
       ELSE /\ response' = [proc |-> p, handler |-> "sessionPut", status |-> 500,
                            error |-> "Failed to update session",
                            id |-> req[p].id, body |-> req[p].updateData]
            /\ UNCHANGED sessions
    /\ pc' = [pc EXCEPT ![p] = "idle"]
    /\ req' = [req EXCEPT ![p] = Idle]
    /\ UNCHANGED <<sessionTypes, availabilityWindows, nextId, now, sugg, origin, probe>>

\* sessions/[id]/route.ts DELETE, up to the delete it awaits.
SessionDeleteFind(p, id) ==
    /\ pc[p] = "idle"
    /\ IF ~\E s \in sessions : s.id = id
       THEN /\ response' = [proc |-> p, handler |-> "sessionDelete", status |-> 404,
                            error |-> "Session not found"]
            /\ UNCHANGED <<pc, req>>
       ELSE /\ pc' = [pc EXCEPT ![p] = "sessionDelete"]
            /\ req' = [req EXCEPT ![p] = [kind |-> "sessionDelete", id |-> id]]
            /\ response' = NoResponse
    /\ UNCHANGED <<store, nextId, now, sugg, origin, probe>>

\* DELETE: await prisma.session.delete(...); it throws when the row is gone.
SessionDelete(p) ==
    /\ pc[p] = "sessionDelete"
    /\ IF \E s \in sessions : s.id = req[p].id
       THEN /\ sessions' = {s \in sessions : s.id # req[p].id}
            /\ response' = [proc |-> p, handler |-> "sessionDelete", status |-> 200]
       ELSE /\ response' = [proc |-> p, handler |-> "sessionDelete", status |-> 500,
                            error |-> "Failed to delete session"]
            /\ UNCHANGED sessions
    /\ pc' = [pc EXCEPT ![p] = "idle"]
    /\ req' = [req EXCEPT ![p] = Idle]
    /\ UNCHANGED <<sessionTypes, availabilityWindows, nextId, now, sugg, origin, probe>>

\* The seeded rows carry identifiers of their own, apart from those the
\* store hands out afterwards.
SeedId == 100
SeededSessions ==
    {[id |-> SeedId + 1] @@ Stored("t1", 540 - MinutesPerDay, 60, TRUE),
     [id |-> SeedId + 2] @@ Stored("t2", 780, 60, FALSE)}

\* Requests of the session-type and session endpoints.
TypeBodies == {[named |-> TRUE, priority |-> 3], [named |-> TRUE, priority |-> 6]}
TypePutBodies == {[priority |-> Some(1)], [priority |-> Some(0)]}
SessionBodies ==
    {Body("t1", IsoDate(540), 60, None), Body("tX", IsoDate(540), 60, None),
     Body(TypeName(1), IsoDate(540), 60, Some(FALSE))}
SessionPutBodies ==
    {[completed |-> Some(JsonBoolean(TRUE)), scheduledAt |-> None, duration |-> None],
     [completed |-> None, scheduledAt |-> None, duration |-> Some(0)]}

InitTypes ==
    /\ sessionTypes = SeedTypes
    /\ availabilityWindows = <<Window(getDay(0), HHMM(9, 0), HHMM(11, 0))>>
    /\ sessions = SeededSessions
    /\ nextId = 1
    /\ now = StartNow
    /\ pc = [p \in Procs |-> "idle"]
    /\ req = [p \in Procs |-> Idle]
    /\ response = NoResponse
    /\ sugg = NoSuggestions
    /\ origin = <<>>
    /\ probe = NoProbe

NextTypes ==
    \/ \E p \in Procs, body \in TypeBodies : TypePost(p, body)
    \/ \E p \in Procs, id \in {"t1", "tX"}, body \in TypePutBodies : TypePutFind(p, id, body)
    \/ \E p \in Procs : TypePutUpdate(p)
    \/ \E p \in Procs, id \in {"t1", TypeName(1)} : TypeDeleteFind(p, id)
    \/ \E p \in Procs : TypeDelete(p)
    \/ \E p \in Procs, body \in SessionBodies : PostLookup(p, body)
    \/ \E p \in Procs : PostCheck(p)
    \/ \E p \in Procs : PostCreate(p)
    \/ /\ sugg = NoSuggestions /\ nextId = 1 /\ InFlight = 0 /\ response = NoResponse
       /\ GetSuggestions("t1", None, Some(1), Some(1))
    \/ \E p \in Procs : AcceptLookup(p, 1)
    \/ \E p \in Procs : AcceptCreate(p)
    \/ \E p \in Procs, id \in {SeedId + 2, 1}, body \in SessionPutBodies : SessionPutFind(p, id, body)
    \/ \E p \in Procs : SessionPutUpdate(p)
    \/ \E p \in Procs, id \in {SeedId + 2, 1} : SessionDeleteFind(p, id)
    \/ \E p \in Procs : SessionDelete(p)

SpecTypes == InitTypes /\ [][NextTypes]_vars

\* ------------------------------------ the session endpoints, one at a time
\* One client sends checked creations, updates and deletions and waits for
\* each answer before the next request.
CheckedBodies ==
    {Body("t1", IsoDate(540), 60, None), Body("t1", IsoDate(570), 60, Some(TRUE)),
     Body("t2", IsoDate(810), 30, None)}

PutBody(c, at, d) == [completed |-> c, scheduledAt |-> at, duration |-> d]

\* Valid bodies with one field and with several, and bodies with one invalid
\* field (a zero duration, a completed that is no boolean, a date that does
\* not parse) next to a valid one.
UpdateBodies ==
    {PutBody(Some(JsonBoolean(TRUE)), None, None),
     PutBody(None, Some(IsoDate(810)), None),
     PutBody(Some(JsonBoolean(FALSE)), None, Some(300)),
     PutBody(Some(JsonBoolean(TRUE)), None, Some(0)),
     PutBody(Some(JsonString), Some(IsoDate(810)), None),
     PutBody(None, Some([kind |-> "invalid", t |-> 0]), Some(90))}

SessionTargets == {SeedId + 2, 1, SeedId + 9}

InitSessions ==
    /\ sessionTypes = SeedTypes
    /\ availabilityWindows = <<Window(getDay(0), HHMM(9, 0), HHMM(11, 0))>>
    /\ sessions = SeededSessions
    /\ nextId = 1
    /\ now = StartNow
    /\ pc = [p \in Procs |-> "idle"]
    /\ req = [p \in Procs |-> Idle]
    /\ response = NoResponse
    /\ sugg = NoSuggestions
    /\ origin = <<>>
    /\ probe = NoProbe

NextSessions ==
    \/ \E body \in CheckedBodies : PostLookup("a", body)
    \/ PostCheck("a")
    \/ PostCreate("a")
    \/ \E id \in SessionTargets, body \in UpdateBodies : SessionPutFind("a", id, body)
    \/ SessionPutUpdate("a")
    \/ \E id \in SessionTargets : SessionDeleteFind("a", id)
    \/ SessionDelete("a")

SpecSessions == InitSessions /\ [][NextSessions]_vars

\* ---------------------------------------------- the availability windows
\* timeRegex.test: hours 0..23 and minutes 0..59.
TimeFormatOk(timeStr) == timeStr[1] \in 0..23 /\ timeStr[2] \in 0..59

\* const [hour, min] = time.split(':').map(Number); hour * 60 + min
ToMinutes(timeStr) == timeStr[1] * 60 + timeStr[2]

\* seed.js POST /api/availability: validation and
\* prisma.availabilityWindow.create.  body is [dayOfWeek, startTime,
\* endTime], each optional.
WindowPost(p, body) ==
    /\ pc[p] = "idle"
    /\ nextId + InFlight <= MaxSessions
    /\ LET Reject(msg) ==
               /\ response' = [proc |-> p, handler |-> "windowPost", status |-> 400,
                               error |-> msg]
               /\ UNCHANGED <<availabilityWindows, nextId, origin>>
       IN  IF ~body.dayOfWeek.some \/ body.dayOfWeek.v < 0 \/ body.dayOfWeek.v > 6
           THEN Reject("dayOfWeek must be a number between 0 (Sunday) and 6 (Saturday)")
           ELSE IF ~body.startTime.some \/ ~TimeFormatOk(body.startTime.v)
           THEN Reject("startTime must be in HH:MM format (e.g., 09:00)")
           ELSE IF ~body.endTime.some \/ ~TimeFormatOk(body.endTime.v)
           THEN Reject("endTime must be in HH:MM format (e.g., 17:00)")
           ELSE IF ToMinutes(body.startTime.v) >= ToMinutes(body.endTime.v)
           THEN Reject("startTime must be before endTime")
           ELSE /\ availabilityWindows' =
                      Append(availabilityWindows,
                             [id |-> nextId, dayOfWeek |-> body.dayOfWeek.v,
                              startTime |-> body.startTime.v, endTime |-> body.endTime.v])
                /\ nextId' = nextId + 1
                /\ origin' = Append(origin, [via |-> "window", basis |-> 0])
                /\ response' = [proc |-> p, handler |-> "windowPost", status |-> 201,
                                id |-> nextId]
    /\ UNCHANGED <<sessionTypes, sessions, now, pc, req, sugg, probe>>

\* The stored window with this identifier (there is one).
WindowById(id) ==
    availabilityWindows[CHOOSE i \in DOMAIN availabilityWindows : availabilityWindows[i].id = id]

\* seed.js PUT /api/availability/[id]: the validation of the fields given,
\* with the times compared after filling in the existing row's: the error
\* message, or NULL.
WindowPutError(existing, body) ==
    IF body.dayOfWeek.some /\ (body.dayOfWeek.v < 0 \/ body.dayOfWeek.v > 6)
    THEN "dayOfWeek must be a number between 0 (Sunday) and 6 (Saturday)"
    ELSE IF body.startTime.some /\ ~TimeFormatOk(body.startTime.v)
    THEN "startTime must be in HH:MM format (e.g., 09:00)"
    ELSE IF body.endTime.some /\ ~TimeFormatOk(body.endTime.v)
    THEN "endTime must be in HH:MM format (e.g., 17:00)"
    ELSE LET finalStartTime == IF body.startTime.some THEN body.startTime.v
                                                     ELSE existing.startTime
             finalEndTime == IF body.endTime.some THEN body.endTime.v ELSE existing.endTime
         IN  IF ToMinutes(finalStartTime) >= ToMinutes(finalEndTime)
             THEN "startTime must be before endTime"
             ELSE NULL

\* PUT, up to the update it awaits: findUnique and validation.
WindowPutFind(p, id, body) ==
    /\ pc[p] = "idle"
    /\ IF ~\E i \in DOMAIN availabilityWindows : availabilityWindows[i].id = id
       THEN /\ response' = [proc |-> p, handler |-> "windowPut", status |-> 404,
                            error |-> "Availability window not found"]
            /\ UNCHANGED <<pc, req>>
       ELSE IF WindowPutError(WindowById(id), body) # NULL
       THEN /\ response' = [proc |-> p, handler |-> "windowPut", status |-> 400,
                            error |-> WindowPutError(WindowById(id), body)]
            /\ UNCHANGED <<pc, req>>
       ELSE /\ pc' = [pc EXCEPT ![p] = "windowUpdate"]
            /\ req' = [req EXCEPT ![p] = [kind |-> "windowPut", id |-> id,
                                          updateData |-> body]]
            /\ response' = NoResponse
    /\ UNCHANGED <<store, nextId, now, sugg, origin, probe>>

\* prisma.availabilityWindow.update({ data: updateData }) on one row.
UpdatedWindow(w, updateData) ==
    [id |-> w.id,
     dayOfWeek |-> IF updateData.dayOfWeek.some THEN updateData.dayOfWeek.v ELSE w.dayOfWeek,
     startTime |-> IF updateData.startTime.some THEN updateData.startTime.v ELSE w.startTime,
     endTime |-> IF updateData.endTime.some THEN updateData.endTime.v ELSE w.endTime]

\* PUT: await prisma.availabilityWindow.update(...); it throws when the row is gone.
WindowPutUpdate(p) ==
    /\ pc[p] = "windowUpdate"
    /\ IF \E i \in DOMAIN availabilityWindows : availabilityWindows[i].id = req[p].id
       THEN /\ availabilityWindows' =
                  [i \in DOMAIN availabilityWindows |->
                      IF availabilityWindows[i].id = req[p].id
                      THEN UpdatedWindow(availabilityWindows[i], req[p].updateData)
                      ELSE availabilityWindows[i]]
            /\ response' = [proc |-> p, handler |-> "windowPut", status |-> 200]
       ELSE /\ response' = [proc |-> p, handler |-> "windowPut", status |-> 500,
                            error |-> "Failed to update availability window"]
            /\ UNCHANGED availabilityWindows
    /\ pc' = [pc EXCEPT ![p] = "idle"]
    /\ req' = [req EXCEPT ![p] = Idle]
    /\ UNCHANGED <<sessionTypes, sessions, nextId, now, sugg, origin, probe>>

\* seed.js DELETE /api/availability/[id], up to the delete it awaits.
WindowDeleteFind(p, id) ==
    /\ pc[p] = "idle"
    /\ IF ~\E i \in DOMAIN availabilityWindows : availabilityWindows[i].id = id
       THEN /\ response' = [proc |-> p, handler |-> "windowDelete", status |-> 404,
                            error |-> "Availability window not found"]
            /\ UNCHANGED <<pc, req>>
       ELSE /\ pc' = [pc EXCEPT ![p] = "windowDelete"]
            /\ req' = [req EXCEPT ![p] = [kind |-> "windowDelete", id |-> id]]
            /\ response' = NoResponse
    /\ UNCHANGED <<store, nextId, now, sugg, origin, probe>>

\* DELETE: await prisma.availabilityWindow.delete(...); it throws when the row is gone.
WindowDelete(p) ==
    /\ pc[p] = "windowDelete"
    /\ IF \E i \in DOMAIN availabilityWindows : availabilityWindows[i].id = req[p].id
       THEN /\ availabilityWindows' =
                  SelectSeq(availabilityWindows, LAMBDA w : w.id # req[p].id)
            /\ response' = [proc |-> p, handler |-> "windowDelete", status |-> 200]
       ELSE /\ response' = [proc |-> p, handler |-> "windowDelete", status |-> 500,
                            error |-> "Failed to delete availability window"]
            /\ UNCHANGED availabilityWindows
    /\ pc' = [pc EXCEPT ![p] = "idle"]
    /\ req' = [req EXCEPT ![p] = Idle]
    /\ UNCHANGED <<sessionTypes, sessions, nextId, now, sugg, origin, probe>>

\* Requests of the availability endpoints.
WindowBody(d, s, e) == [dayOfWeek |-> d, startTime |-> s, endTime |-> e]
WindowPostBodies ==
    {WindowBody(Some(2), Some(HHMM(14, 0)), Some(HHMM(15, 0))),
     WindowBody(Some(7), Some(HHMM(14, 0)), Some(HHMM(15, 0))),
     WindowBody(Some(2), Some(HHMM(15, 0)), Some(HHMM(14, 0))),
     WindowBody(Some(2), Some(HHMM(14, 0)), None)}
WindowPutBodies ==
    {WindowBody(None, Some(HHMM(10, 30)), None),
     WindowBody(None, None, Some(HHMM(10, 0))),
     WindowBody(Some(7), None, None),
     WindowBody(Some(3), Some(HHMM(12, 0)), None)}

InitWindows ==
    /\ sessionTypes = SeedTypes
    /\ availabilityWindows =
          <<[id |-> SeedId + 1] @@ Window(getDay(0), HHMM(9, 0), HHMM(11, 0))>>
    /\ sessions = {}
    /\ nextId = 1
    /\ now = StartNow
    /\ pc = [p \in Procs |-> "idle"]
    /\ req = [p \in Procs |-> Idle]
    /\ response = NoResponse
    /\ sugg = NoSuggestions
    /\ origin = <<>>
    /\ probe = NoProbe

NextWindows ==
    \/ \E p \in Procs, body \in WindowPostBodies : WindowPost(p, body)
    \/ \E p \in Procs, id \in {SeedId + 1, 1}, body \in WindowPutBodies : WindowPutFind(p, id, body)
    \/ \E p \in Procs : WindowPutUpdate(p)
    \/ \E p \in Procs, id \in {SeedId + 1, 1} : WindowDeleteFind(p, id)
    \/ \E p \in Procs : WindowDelete(p)

SpecWindows == InitWindows /\ [][NextWindows]_vars

\* ------------------------------------------------- the statistics endpoint
\* part_005 getCurrentDate: the fixed instant 2025-11-17T12:00:00, a Monday:
\* noon of model day 0.
getCurrentDate == 12 * 60

\* part_005 average spacing over all completed sessions, rounded to one
\* decimal: the optional number of tenths of a day.
StatsAverageSpacing(sortedCompleted) ==
    IF Len(sortedCompleted) >= 2
    THEN Some(MathRound(10 * TotalSpacing(sortedCompleted),
                        (Len(sortedCompleted) - 1) * MinutesPerDay))
    ELSE None

\* part_005 current streak: the while loop over the completed sessions,
\* newest first (sessionIndex counts from 1).
RECURSIVE CurrentStreakWalk(_, _, _, _, _)
CurrentStreakWalk(sortedCompleted, today, checkDate, sessionIndex, currentStreak) ==
    IF sessionIndex > Len(sortedCompleted) THEN currentStreak
    ELSE LET sessionDate == DayStart(sortedCompleted[sessionIndex].scheduledAt)
             onCheckDate == sessionDate = checkDate
             older == sessionDate < checkDate
             streak1 == IF onCheckDate THEN currentStreak + 1 ELSE currentStreak
             index1 == IF older THEN sessionIndex ELSE sessionIndex + 1
             check1 == IF onCheckDate \/ older THEN checkDate - MinutesPerDay ELSE checkDate
             daysSinceSession == today - sessionDate
         IN  IF streak1 = 0 /\ daysSinceSession > MinutesPerDay
             THEN streak1
             ELSE CurrentStreakWalk(sortedCompleted, today, check1, index1, streak1)

\* The longest streak taken as the number of distinct days with a completed session.
LongestStreakLoop_NoReset(sortedCompleted, i, tempStreak, maxStreak) ==
    Max(maxStreak, Cardinality({DayStart(sortedCompleted[k].scheduledAt) :
                                    k \in DOMAIN sortedCompleted}))

\* part_005 longest streak: the for loop over the completed sessions, oldest
\* first (i counts from 1, so the loop starts at 2).
RECURSIVE LongestStreakLoop(_, _, _, _)
LongestStreakLoop(sortedCompleted, i, tempStreak, maxStreak) ==
    IF i > Len(sortedCompleted) THEN maxStreak
    ELSE LET prevDate == DayStart(sortedCompleted[i - 1].scheduledAt)
             currDate == DayStart(sortedCompleted[i].scheduledAt)
             dayDiff == currDate - prevDate
         IN  IF dayDiff = MinutesPerDay
             THEN LongestStreakLoop(sortedCompleted, i + 1, tempStreak + 1,
                                    Max(maxStreak, tempStreak + 1))
             ELSE IF dayDiff = 0
             THEN LongestStreakLoop(sortedCompleted, i + 1, tempStreak, maxStreak)
             ELSE LongestStreakLoop(sortedCompleted, i + 1, 1, maxStreak)

\* part_005 most productive day: the first weekday with the highest count of
\* completed sessions, null when there is none.
MostProductiveDay(completedSessions) ==
    LET dayOfWeekCounts ==
            [d \in 0..6 |-> Len(SelectSeq(completedSessions,
                                          LAMBDA s : getDay(s.scheduledAt) = d))]
        maxCount == CHOOSE c \in Range(dayOfWeekCounts) :
                        \A o \in Range(dayOfWeekCounts) : o <= c
        mostProductiveDayIndex ==
            CHOOSE d \in 0..6 :
                dayOfWeekCounts[d] = maxCount /\ \A e \in 0..(d - 1) : dayOfWeekCounts[e] # maxCount
    IN  IF maxCount > 0 THEN Some(mostProductiveDayIndex) ELSE None

\* part_005 GET /api/stats on allSessions (the rows in the order the store
\* returned them, orderBy scheduledAt asc).  Each sort works in place on the
\* array the previous one left.
StatsResponse(allSessions, types, stored) ==
    LET clock == getCurrentDate
        completedSessions == SelectSeq(allSessions, LAMBDA s : s.completed)
        upcomingSessions ==
            SelectSeq(allSessions, LAMBDA s : s.scheduledAt >= clock /\ ~s.completed)
        byType ==
            {[id |-> type.id, priority |-> type.priority,
              totalSessions |-> Cardinality({s \in stored : s.sessionTypeId = type.id}),
              completedSessions |->
                  Cardinality({s \in stored : s.sessionTypeId = type.id /\ s.completed}),
              upcomingSessions |->
                  Cardinality({s \in stored : /\ s.sessionTypeId = type.id
                                               /\ s.scheduledAt >= clock /\ ~s.completed})]
             : type \in types}
        sorted1 == IF Len(completedSessions) >= 2
                   THEN SortByTime(completedSessions, FALSE) ELSE completedSessions
        averageSpacing == StatsAverageSpacing(sorted1)
        sorted2 == IF Len(sorted1) > 0 THEN SortByTime(sorted1, TRUE) ELSE sorted1
        today == DayStart(getCurrentDate)
        currentStreak ==
            IF Len(sorted1) > 0 THEN CurrentStreakWalk(sorted2, today, today, 1, 0) ELSE 0
        sorted3 == IF Len(sorted2) > 0 THEN SortByTime(sorted2, FALSE) ELSE sorted2
        longestStreak ==
            IF Len(sorted2) > 0 THEN LongestStreakLoop(sorted3, 2, 1, 1) ELSE 0
    IN  [proc |-> "none", handler |-> "stats", status |-> 200,
         totalSessions |-> Len(allSessions),
         completedSessions |-> Len(completedSessions),
         upcomingSessions |-> Len(upcomingSessions),
         completionRate |->
             IF Len(allSessions) > 0
             THEN MathRound(100 * Len(completedSessions), Len(allSessions)) ELSE 0,
         byType |-> byType,
         averageSpacing |-> averageSpacing,
         currentStreak |-> currentStreak,
         longestStreak |-> longestStreak,
         mostProductiveDay |-> MostProductiveDay(sorted3),
         totalDaysWithSessions |->
             Cardinality({DayStart(sorted3[k].scheduledAt) : k \in DOMAIN sorted3})]

\* GET /api/stats: reads the store and answers.
GetStats ==
    /\ \E allSessions \in FindManyOrdered(sessions, FALSE) :
          response' = StatsResponse(allSessions, sessionTypes, sessions)
    /\ UNCHANGED <<store, nextId, now, pc, req, sugg, origin, probe>>

\* part_008 GET /api/sessions: the where clause built from the query.  The
\* date-range block assigns a new object to where.scheduledAt, so it replaces
\* the bound the upcoming block has set; where.completed stays.
SessionsWhere(upcoming, startDate, endDate, clock) ==
    LET afterUpcoming ==
            IF upcoming THEN [gte |-> Some(clock), lte |-> None, notCompleted |-> TRUE]
            ELSE [gte |-> None, lte |-> None, notCompleted |-> FALSE]
    IN  IF startDate.some \/ endDate.some
        THEN [afterUpcoming EXCEPT !.gte = startDate, !.lte = endDate]
        ELSE afterUpcoming

\* The rows of the store a where clause selects.
SessionsMatching(where, stored) ==
    {s \in stored :
        /\ where.gte.some => s.scheduledAt >= where.gte.v
        /\ where.lte.some => s.scheduledAt <= where.lte.v
        /\ where.notCompleted => ~s.completed}

\* part_008 GET /api/sessions: the rows in ascending order of scheduledAt.
\* The query and the clock are recorded with the response for the properties.
GetSessions(upcoming, startDate, endDate) ==
    /\ \E rows \in FindManyOrdered(
              SessionsMatching(SessionsWhere(upcoming, startDate, endDate, now), sessions),
              FALSE) :
          response' = [proc |-> "a", handler |-> "sessionList", status |-> 200,
                       sessions |-> rows, upcoming |-> upcoming,
                       startDate |-> startDate, endDate |-> endDate, clock |-> now]
    /\ UNCHANGED <<store, nextId, now, pc, req, sugg, origin, probe>>

\* getSessionTypeStats of one stored type on every order in which the store
\* may return the type's sessions.
ProbeTypeStats(sessionTypeId) ==
    /\ probe = NoProbe
    /\ \E sessionType \in sessionTypes :
          /\ sessionType.id = sessionTypeId
          /\ LET own == {s \in sessions : s.sessionTypeId = sessionTypeId}
             IN  probe' = [kind |-> "typeStats", sessionTypeId |-> sessionTypeId,
                           result |-> getSessionTypeStats(sessionTypeId, sessionTypes,
                                                          sessions, now),
                           orders |-> Cardinality(FindManyOrdered(own, TRUE)),
                           results |-> {SessionTypeStatsOf(sessionType, rows, now) :
                                           rows \in FindManyOrdered(own, TRUE)}]
    /\ UNCHANGED <<store, nextId, now, pc, req, response, sugg, origin>>

\* ------------------------------------------- the suggestion engine alone
\* Stores the booking endpoints can build (a session of any existing type,
\* start and positive duration is accepted with checkConflict = false;
\* completed is set by PUT), drawn instead of built up step by step.
W1 == Window(getDay(0), HHMM(9, 0), HHMM(11, 0))
W2 == Window(getDay(0), HHMM(9, 30), HHMM(11, 0))
W3 == Window(getDay(MinutesPerDay), HHMM(14, 0), HHMM(15, 30))
W4 == Window(getDay(0), HHMM(6, 0), HHMM(7, 0))

WindowChoices == {<<>>, <<W1>>, <<W1, W2>>, <<W2, W1>>, <<W1, W3>>, <<W4>>, <<W4, W1>>}

SessionPool ==
    <<Stored("t1", 540, 60, FALSE),
      Stored("t2", 570, 30, FALSE),
      Stored("t1", 600, 60, TRUE),
      Stored("t2", MinutesPerDay + 840, 60, FALSE),
      Stored("t1", 540 - 2 * MinutesPerDay, 60, TRUE),
      Stored("t2", 450, 120, FALSE)>>

\* The sessions of the pool at the positions P, with identifiers 1..|P| in pool order.
RECURSIVE DrawnSessions(_, _)
DrawnSessions(P, id) ==
    IF P = {} THEN {}
    ELSE LET i == CHOOSE x \in P : \A y \in P : x <= y
         IN  {[id |-> id] @@ SessionPool[i]} \cup DrawnSessions(P \ {i}, id + 1)

InitSuggest ==
    /\ sessionTypes = SeedTypes
    /\ availabilityWindows \in WindowChoices
    /\ \E P \in SUBSET (DOMAIN SessionPool) :
          /\ Cardinality(P) <= MaxInitSessions
          /\ sessions = DrawnSessions(P, 1)
          /\ nextId = Cardinality(P) + 1
          /\ origin = [i \in 1..Cardinality(P) |-> [via |-> "unchecked", basis |-> 0]]
    /\ now \in {StartNow, MaxNow}
    /\ pc = [p \in Procs |-> "idle"]
    /\ req = [p \in Procs |-> Idle]
    /\ response = NoResponse
    /\ sugg = NoSuggestions
    /\ probe = NoProbe

\* One call per behaviour: the call is applied to the drawn store.
NextSuggest ==
    /\ sugg = NoSuggestions /\ response = NoResponse
    /\ \/ \E t \in {"t1", "t2", "tX"}, d \in {None, Some(30), Some(120), Some(0)},
             a \in {Some(1), Some(8), Some(0)},
             l \in {None, Some(1), Some(2), Some(0), Some(0 - 1)} :
                GetSuggestions(t, d, a, l)
       \/ GetStats
       \/ \E upcoming \in BOOLEAN,
             startDate \in {None, Some(0 - MinutesPerDay), Some(600)},
             endDate \in {None, Some(600), Some(2 * MinutesPerDay)} :
                GetSessions(upcoming, startDate, endDate)

SpecSuggest == InitSuggest /\ [][NextSuggest]_vars


\* ------------------------------------------------- the pure functions
\* The two conflict detectors on one pair of intervals, in both roles.
ProbeIntervals ==
    {[start |-> s * slotInterval, duration |-> d * (slotInterval \div 2)] :
        s \in 0..ProbeStarts, d \in 1..ProbeLengths}

AsSlot(x) == [start |-> x.start, end |-> x.start + x.duration, dayOfWeek |-> getDay(x.start)]
AsSession(x) ==
    [id |-> 1, sessionTypeId |-> "t1", scheduledAt |-> x.start, duration |-> x.duration,
     completed |-> FALSE]

ProbeOverlap ==
    /\ probe.kind = "overlap" /\ ~probe.done
    /\ probe' = [probe EXCEPT
          !.done = TRUE,
          !.slotVerdict = hasConflict(AsSlot(probe.a), {AsSession(probe.b)}),
          !.slotVerdictRev = hasConflict(AsSlot(probe.b), {AsSession(probe.a)}),
          !.bookingVerdict =
              checkConflicts(probe.a.start, probe.a.duration, None, {AsSession(probe.b)}) # {},
          !.bookingVerdictRev =
              checkConflicts(probe.b.start, probe.b.duration, None, {AsSession(probe.a)}) # {}]
    /\ UNCHANGED <<store, nextId, now, pc, req, response, sugg, origin>>

\* scoreTimeSlot on one slot against every ordering of the same existing sessions.
Existing(at, d, pr) == [scheduledAt |-> at, duration |-> d, priority |-> pr]

ExistingPool ==
    {Existing(480, 45, 5), Existing(615, 30, 2), Existing(700, 60, 5),
     Existing(MinutesPerDay + 600, 60, 2)}

\* The sequences of distinct elements of S of length at most n.
SeqsOf(S, n) ==
    UNION {{q \in [1..k -> S] : \A i, j \in 1..k : i # j => q[i] # q[j]} : k \in 0..n}

Perms(s) == {q \in [DOMAIN s -> Range(s)] : Range(q) = Range(s)}

ProbeSlots == {[start |-> 540, end |-> 600, dayOfWeek |-> getDay(540)],
               [start |-> MinutesPerDay + 840, end |-> MinutesPerDay + 900,
                dayOfWeek |-> getDay(MinutesPerDay + 840)]}

ProbeStats ==
    LET all ==
          {[id |-> "t", priority |-> pr, lastScheduled |-> last, upcomingCount |-> 0,
            completedCount |-> IF avg.some THEN 3 ELSE 0,
            hasAverage |-> avg.some,
            averageSpacingDays |-> IF avg.some THEN avg.v ELSE [num |-> 0, den |-> 1]] :
              pr \in {2, 5},
              last \in {None, Some(540 - 2 * MinutesPerDay), Some(540 + 3 * MinutesPerDay)},
              avg \in {None, Some([num |-> 4 * MinutesPerDay + 30, den |-> 2]),
                       Some([num |-> 0, den |-> 2])}}
    IN  {x \in all : x.hasAverage => x.lastScheduled.some}

\* The statistics with the average spacing absent.
WithoutAverage(stats) ==
    [stats EXCEPT !.hasAverage = FALSE, !.averageSpacingDays = [num |-> 0, den |-> 1]]

ProbeScore ==
    /\ probe.kind = "score" /\ ~probe.done
    /\ probe' = [probe EXCEPT
          !.done = TRUE,
          !.result = scoreTimeSlot(probe.slot, probe.stats, probe.existing, probe.clock),
          !.results = {scoreTimeSlot(probe.slot, probe.stats, q, probe.clock) :
                          q \in Perms(probe.existing)},
          !.alone = scoreTimeSlot(probe.slot, probe.stats, <<>>, probe.clock),
          !.noAverage = scoreTimeSlot(probe.slot, WithoutAverage(probe.stats),
                                      probe.existing, probe.clock)]
    /\ UNCHANGED <<store, nextId, now, pc, req, response, sugg, origin>>

\* scoreTimeSlot on one slot for every priority a session type can have, with
\* the same statistics, existing sessions and clock.
Priorities == 1..5

HourSlots ==
    {[start |-> MinutesPerDay + h * 60, end |-> MinutesPerDay + h * 60 + 60,
      dayOfWeek |-> getDay(MinutesPerDay + h * 60)] : h \in 0..23}

ProbePriority ==
    /\ probe.kind = "priority" /\ ~probe.done
    /\ probe' = [probe EXCEPT
          !.done = TRUE,
          !.byPriority = [pr \in Priorities |->
              scoreTimeSlot(probe.slot, [probe.stats EXCEPT !.priority = pr],
                            probe.existing, probe.clock)]]
    /\ UNCHANGED <<store, nextId, now, pc, req, response, sugg, origin>>

InitPure ==
    /\ sessionTypes = SeedTypes
    /\ availabilityWindows = <<>>
    /\ sessions = {}
    /\ nextId = 1
    /\ now = StartNow
    /\ pc = [p \in Procs |-> "idle"]
    /\ req = [p \in Procs |-> Idle]
    /\ response = NoResponse
    /\ sugg = NoSuggestions
    /\ origin = <<>>
    /\ \/ \E a, b \in ProbeIntervals :
             probe = [kind |-> "overlap", done |-> FALSE, a |-> a, b |-> b,
                      slotVerdict |-> FALSE, slotVerdictRev |-> FALSE,
                      bookingVerdict |-> FALSE, bookingVerdictRev |-> FALSE]
       \/ \E slot \in ProbeSlots, stats \in ProbeStats,
             existing \in SeqsOf(ExistingPool, MaxExisting) :
             probe = [kind |-> "score", done |-> FALSE, slot |-> slot, stats |-> stats,
                      existing |-> existing, clock |-> now,
                      result |-> scoreTimeSlot(slot, stats, <<>>, now), results |-> {},
                      alone |-> scoreTimeSlot(slot, stats, <<>>, now),
                      noAverage |-> scoreTimeSlot(slot, stats, <<>>, now)]
       \/ \E slot \in HourSlots, stats \in {x \in ProbeStats : x.priority = 2},
             existing \in SeqsOf(ExistingPool, MaxExisting) :
             probe = [kind |-> "priority", done |-> FALSE, slot |-> slot, stats |-> stats,
                      existing |-> existing, clock |-> now,
                      byPriority |-> [pr \in Priorities |->
                                         scoreTimeSlot(slot, stats, <<>>, now)]]

NextPure == ProbeOverlap \/ ProbeScore \/ ProbePriority

SpecPure == InitPure /\ [][NextPure]_vars

\* ------------------------------------------------- the statistics alone
\* Completed and open sessions around the fixed current date, drawn instead
\* of built up by the booking endpoints and PUT completed = true.
StatsPool ==
    <<Stored("t1", 540, 60, TRUE),
      Stored("t1", 900, 30, TRUE),
      Stored("t1", 600 - MinutesPerDay, 60, TRUE),
      Stored("t2", 600 - 2 * MinutesPerDay, 60, TRUE),
      Stored("t1", 540 - 3 * MinutesPerDay, 60, TRUE),
      Stored("t1", 540 - 5 * MinutesPerDay, 60, TRUE),
      Stored("t1", 540 - 3 * MinutesPerDay, 30, FALSE),
      Stored("t2", 600 + MinutesPerDay, 60, TRUE)>>

\* The rows of the pool at the positions P, with identifiers from id on in pool order.
RECURSIVE DrawnFrom(_, _, _)
DrawnFrom(pool, P, id) ==
    IF P = {} THEN {}
    ELSE LET i == CHOOSE x \in P : \A y \in P : x <= y
         IN  {[id |-> id] @@ pool[i]} \cup DrawnFrom(pool, P \ {i}, id + 1)

InitStats ==
    /\ sessionTypes = SeedTypes
    /\ availabilityWindows = <<>>
    /\ \E P \in SUBSET (DOMAIN StatsPool) :
          /\ Cardinality(P) <= MaxStatSessions
          /\ sessions = DrawnFrom(StatsPool, P, 1)
          /\ nextId = Cardinality(P) + 1
          /\ origin = [i \in 1..Cardinality(P) |-> [via |-> "unchecked", basis |-> 0]]
    /\ now = StartNow
    /\ pc = [p \in Procs |-> "idle"]
    /\ req = [p \in Procs |-> Idle]
    /\ response = NoResponse
    /\ sugg = NoSuggestions
    /\ probe = NoProbe

NextStats ==
    \/ response = NoResponse /\ GetStats
    \/ \E t \in {"t1", "t2"} : ProbeTypeStats(t)

SpecStats == InitStats /\ [][NextStats]_vars

\* ------------------------------------------- the current-streak loop alone
\* The loop body with the branch for an older session leaving checkDate alone.
WalkBody_NoStepBack(sortedCompleted, today, w) ==
    LET sessionDate == DayStart(sortedCompleted[w.sessionIndex].scheduledAt)
        onCheckDate == sessionDate = w.checkDate
        older == sessionDate < w.checkDate
        streak1 == IF onCheckDate THEN w.currentStreak + 1 ELSE w.currentStreak
    IN  [checkDate |-> IF onCheckDate THEN w.checkDate - MinutesPerDay ELSE w.checkDate,
         sessionIndex |-> IF older THEN w.sessionIndex ELSE w.sessionIndex + 1,
         currentStreak |-> streak1,
         broke |-> streak1 = 0 /\ today - sessionDate > MinutesPerDay]

\* part_005 current streak: one iteration of the while loop on the loop
\* variables w (sessionIndex counts from 1); broke records the break.
WalkBody(sortedCompleted, today, w) ==
    LET sessionDate == DayStart(sortedCompleted[w.sessionIndex].scheduledAt)
        onCheckDate == sessionDate = w.checkDate
        older == sessionDate < w.checkDate
        streak1 == IF onCheckDate THEN w.currentStreak + 1 ELSE w.currentStreak
    IN  [checkDate |-> IF onCheckDate \/ older
                       THEN w.checkDate - MinutesPerDay ELSE w.checkDate,
         sessionIndex |-> IF older THEN w.sessionIndex ELSE w.sessionIndex + 1,
         currentStreak |-> streak1,
         broke |-> streak1 = 0 /\ today - sessionDate > MinutesPerDay]

\* The loop has ended: the condition of the while is false, or the break was taken.
WalkEnded == probe.w.broke \/ probe.w.sessionIndex > Len(probe.sortedCompleted)

\* One iteration of the loop.
WalkStep ==
    /\ probe.kind = "walk" /\ ~WalkEnded
    /\ probe' = [probe EXCEPT !.w = WalkBody(probe.sortedCompleted, probe.today, probe.w)]
    /\ UNCHANGED <<store, nextId, now, pc, req, response, sugg, origin>>

\* The loop is entered on the completed sessions of a drawn store, sorted
\* newest first as the handler has sorted them by then.
InitWalk ==
    /\ sessionTypes = SeedTypes
    /\ availabilityWindows = <<>>
    /\ \E P \in SUBSET (DOMAIN StatsPool) :
          /\ Cardinality(P) <= MaxStatSessions
          /\ sessions = DrawnFrom(StatsPool, P, 1)
          /\ nextId = Cardinality(P) + 1
          /\ origin = [i \in 1..Cardinality(P) |-> [via |-> "unchecked", basis |-> 0]]
    /\ now = StartNow
    /\ pc = [p \in Procs |-> "idle"]
    /\ req = [p \in Procs |-> Idle]
    /\ response = NoResponse
    /\ sugg = NoSuggestions
    /\ \E allSessions \in FindManyOrdered(sessions, FALSE) :
          LET completedSessions == SelectSeq(allSessions, LAMBDA s : s.completed)
              today == DayStart(getCurrentDate)
          IN  probe = [kind |-> "walk",
                       sortedCompleted |->
                           SortByTime(SortByTime(completedSessions, FALSE), TRUE),
                       today |-> today,
                       w |-> [checkDate |-> today, sessionIndex |-> 1,
                              currentStreak |-> 0, broke |-> FALSE]]

NextWalk == WalkStep

\* The handler runs the loop to its end without waiting for anything.
SpecWalk == InitWalk /\ [][NextWalk]_vars /\ WF_vars(WalkStep)

\* ------------------------------------------------------------- properties
\* Half-open intervals [s1, e1) and [s2, e2) intersect.
IntervalsOverlap(s1, e1, s2, e2) == s1 < e2 /\ s2 < e1

SessionsOverlap(a, b) ==
    IntervalsOverlap(a.scheduledAt, SessionEnd(a), b.scheduledAt, SessionEnd(b))

Answered == sugg.status = 200

\* Rationals [num, den] with positive denominators.
RatLess(a, b) == a.num * b.den < b.num * a.den
RatEqual(a, b) == a.num * b.den = b.num * a.den

\* "HH:MM" as minutes after midnight.
MinuteOfDay(timeStr) == timeStr[1] * 60 + timeStr[2]

\* C1: no suggestion returned by getSuggestions overlaps (half-open test) the
\* interval of any session of the universe the call fetched: every stored
\* session of any type, completed or not, scheduled at or after now.
C1_NoSuggestionConflicts ==
    Answered =>
        \A i \in DOMAIN sugg.suggestions :
            \A s \in sessions :
                s.scheduledAt >= sugg.clock =>
                    ~IntervalsOverlap(sugg.suggestions[i].suggestedStart,
                                      sugg.suggestions[i].suggestedEnd,
                                      s.scheduledAt, SessionEnd(s))

\* A call that returned suggestions after dropping a candidate that conflicts
\* with a session of the universe.
C1_Witness ==
    /\ Answered
    /\ Len(sugg.suggestions) >= 1
    /\ sugg.available < Len(sugg.candidates)
    /\ \E s \in sessions : s.scheduledAt >= sugg.clock /\ s.completed

\* C2: every slot generateCandidateSlots produces starts strictly after now,
\* ends duration minutes after its start, lies within the concrete interval,
\* on the slot's date, of an availability window of that date's weekday, and
\* falls on one of the daysAhead calendar days starting today.
C2_CandidateSlotsWellFormed ==
    Answered =>
        \A i \in DOMAIN sugg.candidates :
            LET c == sugg.candidates[i]
                date == DayStart(c.start)
            IN  /\ c.start > now
                /\ c.end = c.start + sugg.duration
                /\ \E k \in DOMAIN availabilityWindows :
                      LET w == availabilityWindows[k]
                      IN  /\ w.dayOfWeek = getDay(c.start)
                          /\ date + MinuteOfDay(w.startTime) <= c.start
                          /\ c.end <= date + MinuteOfDay(w.endTime)
                /\ \E k \in 0..(sugg.daysAhead - 1) :
                      date = DayStart(now) + k * MinutesPerDay

\* Slots were generated on a later day of the horizon as well as today, and a
\* tick of today's window was skipped because it is not after now.
C2_Witness ==
    /\ Answered
    /\ \E i, j \in DOMAIN sugg.candidates :
          /\ DayStart(sugg.candidates[i].start) = DayStart(now)
          /\ DayStart(sugg.candidates[j].start) > DayStart(now)
    /\ now = MaxNow
    /\ \E k \in DOMAIN availabilityWindows :
          /\ availabilityWindows[k].dayOfWeek = getDay(now)
          /\ MinuteOfDay(availabilityWindows[k].startTime) <= now % MinutesPerDay

\* C4: the suggestions are in non-increasing order of the unrounded score the
\* sort used and of the rounded score of the response, and the i-th entry
\* carries rank i.
C4_RankedByScore ==
    Answered =>
        /\ \A i \in DOMAIN sugg.suggestions : sugg.suggestions[i].rank = i
        /\ \A i, j \in DOMAIN sugg.suggestions :
              i < j =>
                 /\ ~RatLess(sugg.suggestions[i].sortScore, sugg.suggestions[j].sortScore)
                 /\ sugg.suggestions[i].score >= sugg.suggestions[j].score

\* Three or more suggestions whose scores are not all the same, the best one
\* not being the first candidate generated.
C4_Witness ==
    /\ Answered
    /\ Len(sugg.suggestions) >= 3
    /\ sugg.suggestions[1].score > sugg.suggestions[3].score
    /\ sugg.suggestions[1].gen > 1

\* The unrounded score the call gave to candidate g.
CandidateScore(g) ==
    scoreTimeSlot(sugg.candidates[g],
                  getSessionTypeStats(sugg.sessionTypeId, sessionTypes, sessions, sugg.clock),
                  ExistingFrom({s \in sessions : s.scheduledAt >= sugg.clock}, sessionTypes),
                  sugg.clock).score

SameScore(a, b) == RatEqual(a, b)

ReturnedGens == {sugg.suggestions[i].gen : i \in DOMAIN sugg.suggestions}

\* C5: of two conflict-free candidates with the same score, the one generated
\* earlier is ranked first, and is the one kept when the limit cuts between them.
C5_TiesKeepGenerationOrder ==
    Answered =>
        /\ \A i, j \in DOMAIN sugg.suggestions :
              (i < j /\ SameScore(sugg.suggestions[i].sortScore,
                                  sugg.suggestions[j].sortScore))
                 => sugg.suggestions[i].gen < sugg.suggestions[j].gen
        /\ \A i \in DOMAIN sugg.suggestions :
              \A g \in DOMAIN sugg.candidates :
                 (/\ g \notin ReturnedGens
                  /\ ~hasConflict(sugg.candidates[g],
                                  {s \in sessions : s.scheduledAt >= sugg.clock})
                  /\ SameScore(CandidateScore(g), sugg.suggestions[i].sortScore))
                    => sugg.suggestions[i].gen < g

\* Two tied suggestions were returned and the limit cut between two further
\* tied candidates.
C5_Witness ==
    /\ Answered
    /\ \E i, j \in DOMAIN sugg.suggestions :
          i < j /\ SameScore(sugg.suggestions[i].sortScore, sugg.suggestions[j].sortScore)
    /\ \E i \in DOMAIN sugg.suggestions :
          \E g \in DOMAIN sugg.candidates :
             /\ g \notin ReturnedGens
             /\ SameScore(CandidateScore(g), sugg.suggestions[i].sortScore)

\* C6: with n conflict-free candidates the call returns min(max(limit, 0), n)
\* suggestions, for every integer limit.
C6_CountIsLimitCapped ==
    Answered => Len(sugg.suggestions) = Min(Max(sugg.limit, 0), sugg.available)


\* C3: the overlap test of both conflict detectors is symmetric and half-open:
\* two intervals of positive duration conflict iff each starts before the
\* other ends, so an interval starting when the other ends does not conflict;
\* hasConflict and checkConflicts agree on every pair.
C3_OverlapSymmetricHalfOpen ==
    (probe.kind = "overlap" /\ probe.done) =>
        LET a == probe.a
            b == probe.b
            expected == a.start < b.start + b.duration /\ b.start < a.start + a.duration
        IN  /\ probe.slotVerdict = expected
            /\ probe.bookingVerdict = probe.slotVerdict
            /\ probe.slotVerdictRev = probe.slotVerdict
            /\ probe.bookingVerdictRev = probe.bookingVerdict
            /\ (a.start + a.duration = b.start) => ~probe.slotVerdict /\ ~probe.bookingVerdict

\* Both detectors were applied to two intervals that touch without overlapping.
C3_Witness ==
    /\ probe.kind = "overlap" /\ probe.done
    /\ probe.a.start + probe.a.duration = probe.b.start
    /\ ~probe.slotVerdict /\ ~probe.bookingVerdict

\* C7: scoreTimeSlot gives the same score and the same reasons in the same
\* order for the same slot, statistics and now, whatever the order in which
\* the existing sessions are listed.
C7_ScoreIndependentOfSessionOrder ==
    (probe.kind = "score" /\ probe.done) => probe.results = {probe.result}

\* A slot was scored against three sessions, two of them of different
\* priority on the slot's day, one ending and one starting within the buffer.
C7_Witness ==
    /\ probe.kind = "score" /\ probe.done
    /\ Len(probe.existing) = 3
    /\ \E i, j \in DOMAIN probe.existing :
          /\ probe.existing[i].priority # probe.existing[j].priority
          /\ DayStart(probe.existing[i].scheduledAt) = DayStart(probe.slot.start)
          /\ DayStart(probe.existing[j].scheduledAt) = DayStart(probe.slot.start)
    /\ probe.result.score.num # scoreTimeSlot(probe.slot, probe.stats, <<>>, probe.clock).score.num

\* The request of process p overlaps these stored sessions.
Overlapping(p) ==
    {s \in sessions :
        IntervalsOverlap(req[p].scheduledAt.t, req[p].scheduledAt.t + req[p].duration,
                         s.scheduledAt, SessionEnd(s))}

\* C8: a valid POST /api/sessions is decided by its checkConflict flag and the
\* store: with the flag set and a stored session overlapping, it is rejected
\* with 409, the conflicts listing exactly the overlapping sessions, and the
\* store is unchanged; otherwise exactly one session with the requested
\* type, start and duration and completed = false is added and the session
\* types and windows are unchanged.
C8_PostOutcome ==
    [][\A p \in Procs :
        \* the body was accepted: the flag decides whether conflicts are read
        /\ (pc[p] = "idle" /\ pc'[p] \in {"check", "create"}) =>
              /\ (pc'[p] = "check") <=>
                    (~req'[p].checkConflict.some \/ req'[p].checkConflict.v)
              /\ UNCHANGED store
        \* the conflict read
        /\ (pc[p] = "check" /\ pc'[p] # "check") =>
              /\ UNCHANGED store
              /\ IF Overlapping(p) # {}
                 THEN /\ pc'[p] = "idle"
                      /\ response'.proc = p /\ response'.status = 409
                      /\ response'.conflicts =
                            {[id |-> s.id, sessionType |-> s.sessionTypeId,
                              scheduledAt |-> s.scheduledAt, duration |-> s.duration]
                             : s \in Overlapping(p)}
                 ELSE pc'[p] = "create"
        \* the insert
        /\ (pc[p] = "create" /\ pc'[p] = "idle") =>
              /\ \E n \in sessions' :
                    /\ \A s \in sessions : s.id # n.id
                    /\ sessions' = sessions \cup {n}
                    /\ n.sessionTypeId = req[p].sessionTypeId
                    /\ n.scheduledAt = req[p].scheduledAt.t
                    /\ n.duration = req[p].duration
                    /\ n.completed = FALSE
                    /\ response'.proc = p /\ response'.status = 201
                    /\ response'.session = n
              /\ UNCHANGED <<sessionTypes, availabilityWindows>>
    ]_vars

\* A request was rejected with 409 listing the one stored session it overlaps
\* without being identical to it.
C8_Witness ==
    /\ response.handler = "sessions" /\ response.status = 409
    /\ Cardinality(response.conflicts) = 1
    /\ \E s \in sessions :
          /\ [id |-> s.id, sessionType |-> s.sessionTypeId, scheduledAt |-> s.scheduledAt,
              duration |-> s.duration] \in response.conflicts
          /\ origin[s.id].via = "unchecked"

\* C9: of two concurrent session-creation requests for overlapping intervals,
\* both with conflict checking enabled, at most one inserts a session: no two
\* stored sessions created with the check enabled overlap.
C9_NoDoubleBooking ==
    \A a, b \in sessions :
        (/\ a.id # b.id
         /\ origin[a.id].via = "checked"
         /\ origin[b.id].via = "checked")
            => ~SessionsOverlap(a, b)

\* C10: an acceptance does not insert a session overlapping a session that
\* was created after the suggestion was computed.
C10_AcceptRevalidates ==
    \A a, b \in sessions :
        (/\ origin[a.id].via = "accept"
         /\ b.id >= origin[a.id].basis
         /\ b.id < a.id)
            => ~SessionsOverlap(a, b)

\* The calendar days (day numbers) holding at least one completed session.
CompletedDays == {s.scheduledAt \div MinutesPerDay : s \in {x \in sessions : x.completed}}
Today == getCurrentDate \div MinutesPerDay
StatsAnswered == response.handler = "stats"
\* Each of the k days from day d on holds a completed session.
RunAt(d, k) == \A i \in 0..(k - 1) : (d + i) \in CompletedDays

\* C11: currentStreak is the number of consecutive days, counted backward
\* from today, that each hold a completed session, stopping at the first day
\* with none.
C11_CurrentStreak ==
    StatsAnswered =>
        /\ RunAt(Today - response.currentStreak + 1, response.currentStreak)
        /\ (Today - response.currentStreak) \notin CompletedDays

\* C12: longestStreak is the length of the longest run of consecutive days
\* each holding a completed session, and 0 when no session is completed.
C12_LongestStreak ==
    StatsAnswered =>
        /\ (response.longestStreak = 0) <=> (CompletedDays = {})
        /\ response.longestStreak > 0 =>
              \E d \in CompletedDays : RunAt(d, response.longestStreak)
        /\ ~\E d \in CompletedDays : RunAt(d, response.longestStreak + 1)

\* Four completed sessions on three days, two of them on one day, with a gap
\* of more than one day: the longest run is shorter than the number of days.
C12_Witness ==
    /\ StatsAnswered
    /\ response.completedSessions = 4
    /\ Cardinality(CompletedDays) = 3
    /\ response.longestStreak = 2

\* The completed sessions of the probed type.
ProbedCompleted == {s \in sessions : s.sessionTypeId = probe.sessionTypeId /\ s.completed}
Earliest(S) == CHOOSE s \in S : \A o \in S : s.scheduledAt <= o.scheduledAt
Latest(S) == CHOOSE s \in S : \A o \in S : s.scheduledAt >= o.scheduledAt

\* C13: getSessionTypeStats gives averageSpacingDays = null with fewer than
\* two completed sessions of the type and otherwise (latest - earliest)/(n-1)
\* days, whatever the order in which the store returns the rows and whatever
\* the non-completed sessions are.
C13_AverageSpacing ==
    probe.kind = "typeStats" =>
        /\ probe.results = {probe.result}
        /\ probe.result.hasAverage <=> Cardinality(ProbedCompleted) >= 2
        /\ probe.result.hasAverage =>
              probe.result.averageSpacingDays.num * (Cardinality(ProbedCompleted) - 1) =
                  (Latest(ProbedCompleted).scheduledAt - Earliest(ProbedCompleted).scheduledAt)
                      * probe.result.averageSpacingDays.den

\* Three completed sessions of the type 2 and 3 days apart average 2.5 days,
\* with a non-completed session of the type stored at the time of one of
\* them, so that the store may return the rows in more than one order.
C13_Witness ==
    /\ probe.kind = "typeStats"
    /\ Cardinality(ProbedCompleted) = 3
    /\ \E s \in sessions : s.sessionTypeId = probe.sessionTypeId /\ ~s.completed
    /\ probe.orders > 1
    /\ 2 * probe.result.averageSpacingDays.num =
          5 * MinutesPerDay * probe.result.averageSpacingDays.den

\* A call of GET /api/suggestions was answered, with any status.
Called == sugg.status # 0
TypeResolves == \E t \in sessionTypes : t.id = sugg.sessionTypeId
DurationValid == sugg.duration > 0 /\ sugg.duration <= MaxDuration

\* C14: getSuggestions for a session-type identifier that does not resolve
\* fails with the not-found status session creation uses (404) and returns
\* no suggestion list.
C14_UnknownTypeNotFound ==
    (Called /\ sugg.sessionTypeId # NULL /\ DurationValid /\ ~TypeResolves) =>
        sugg.status = 404 /\ sugg.suggestions = <<>>

\* Every candidate slot of the call overlaps a session the call fetched.
NoCandidateSurvives ==
    \A i \in DOMAIN sugg.candidates :
        \E s \in sessions :
            /\ s.scheduledAt >= sugg.clock
            /\ IntervalsOverlap(sugg.candidates[i].start, sugg.candidates[i].end,
                                s.scheduledAt, SessionEnd(s))

\* C15: for an existing type and a valid duration the call never fails, and
\* when no candidate slot survives conflict filtering it answers 200 with an
\* empty suggestion list and a message.
C15_EmptyResultIsSuccess ==
    (Called /\ TypeResolves /\ DurationValid) =>
        /\ sugg.status = 200
        /\ NoCandidateSurvives => sugg.suggestions = <<>> /\ sugg.message # NULL

\* Candidates were generated and every one of them conflicts.
C15_Witness ==
    /\ Called /\ TypeResolves /\ DurationValid
    /\ Len(sugg.candidates) > 0
    /\ NoCandidateSurvives
    /\ sugg.status = 200

\* C16: getSuggestions and getAggregateStats leave the stored sessions,
\* session types and availability windows as they were, whatever the outcome.
C16_ReadOnly ==
    [][(sugg' # sugg \/ response'.handler = "stats") => UNCHANGED store]_vars

\* A successful call with suggestions over a store that holds sessions.
C16_Witness ==
    /\ sugg.status = 200
    /\ Len(sugg.suggestions) > 0
    /\ sessions # {}

\* C17: getSuggestions with duration <= 0 or daysAhead <= 0 is rejected with
\* a validation error (400).
C17_RejectsNonPositive ==
    (Called /\ sugg.sessionTypeId # NULL /\ (sugg.duration <= 0 \/ sugg.daysAhead <= 0)) =>
        sugg.status = 400

\* C18: no suggestion overlaps any session stored at call time, whether it
\* starts before or after now.
C18_NoOverlapWithStored ==
    Answered =>
        \A i \in DOMAIN sugg.suggestions :
            \A s \in sessions :
                ~IntervalsOverlap(sugg.suggestions[i].suggestedStart,
                                  sugg.suggestions[i].suggestedEnd,
                                  s.scheduledAt, SessionEnd(s))

\* Every stored session references a stored session type.
SessionsReferenceTypes ==
    \A s \in sessions : \E x \in sessionTypes : x.id = s.sessionTypeId

\* C19: every stored session references a session type that exists; a
\* session-creation request (direct or accept) goes on past the type lookup
\* only for a stored type, and its 404 leaves the store unchanged; a step
\* that removes session types removes exactly the sessions of those types.
C19_SessionsReferenceTypes ==
    /\ []SessionsReferenceTypes
    /\ [][/\ \A p \in Procs :
                (pc[p] = "idle" /\ pc'[p] \in {"check", "create", "acceptCreate"}) =>
                    \E x \in sessionTypes : x.id = req'[p].sessionTypeId
          /\ (response'.handler \in {"sessions", "accept"} /\ response'.status = 404) =>
                UNCHANGED store
          /\ (sessionTypes' # sessionTypes /\ sessionTypes' \subseteq sessionTypes) =>
                sessions' = {s \in sessions :
                                \E x \in sessionTypes' : x.id = s.sessionTypeId}
         ]_vars

\* Deleting the seeded type t1 succeeded: its seeded session is gone and the
\* session of the other type is still stored.
C19_Witness ==
    /\ response.handler = "typeDelete" /\ response.status = 200
    /\ ~\E x \in sessionTypes : x.id = "t1"
    /\ \E s \in sessions : s.sessionTypeId = "t2"
    /\ ~\E s \in sessions : s.sessionTypeId = "t1"

\* C20: every stored availability window has dayOfWeek in 0..6 and its start
\* time-of-day strictly before its end time-of-day.
C20_WindowsWellFormed ==
    \A i \in DOMAIN availabilityWindows :
        /\ availabilityWindows[i].dayOfWeek \in 0..6
        /\ MinuteOfDay(availabilityWindows[i].startTime) <
              MinuteOfDay(availabilityWindows[i].endTime)

\* ------------------------------------------------- the scoring factors
PriorityProbed == probe.kind = "priority" /\ probe.done
ScoreProbed == probe.kind = "score" /\ probe.done
HasReason(scored, text) == \E i \in DOMAIN scored.reasons : scored.reasons[i][1] = text

\* C21: with the slot, the statistics, the existing sessions and the clock
\* equal, the score of a slot is strictly greater for a higher priority than
\* for a lower one, for every pair of priorities 1..5 and every slot hour.
C21_HigherPriorityScoresHigher ==
    PriorityProbed =>
        \A lo, hi \in Priorities :
            lo < hi => RatLess(probe.byPriority[lo].score, probe.byPriority[hi].score)

\* An afternoon slot, where the lower priorities alone get the time-of-day bonus.
C21_Witness ==
    /\ PriorityProbed
    /\ getHours(probe.slot.start) = 14
    /\ HasReason(probe.byPriority[2], "Afternoon time slot")
    /\ ~HasReason(probe.byPriority[3], "Afternoon time slot")
    /\ probe.existing # <<>>


\* C24: the spacing contribution max(0, 30 - 5 * |daysSinceLast -
\* averageSpacing|) is part of the score whenever the statistics carry both
\* an average spacing (of any value, 0 days included) and a last-scheduled
\* instant, and is left out only when one of the two is absent.
C24_SpacingContribution ==
    ScoreProbed =>
        LET stats == probe.stats
            avg == stats.averageSpacingDays
            U == MinutesPerDay * avg.den
            sinceLast == probe.slot.start - stats.lastScheduled.v
            expected ==
                IF stats.hasAverage /\ stats.lastScheduled.some
                THEN Max(0, 30 * U - 5 * Abs(sinceLast * avg.den - avg.num))
                ELSE 0
            with == probe.result.score
            without == probe.noAverage.score
        IN  with.num * without.den - without.num * with.den = expected * without.den

\* The penalty the claim gives for the existing sessions starting on a day.
RECURSIVE LoadPenalty(_, _)
LoadPenalty(existing, day) ==
    IF existing = <<>> THEN 0
    ELSE (IF DayStart(Head(existing).scheduledAt) = day
          THEN 15 + 5 * Head(existing).priority ELSE 0)
         + LoadPenalty(Tail(existing), day)

OnSlotDay(i) == DayStart(probe.existing[i].scheduledAt) = DayStart(probe.slot.start)

GapBefore(s, x) == s.suggestedStart - SessionEnd(x)
GapAfter(s, x) == x.scheduledAt - s.suggestedEnd

\* C23: a returned slot carries the buffer bonus (reason 'Good buffer time
\* around session') exactly when no session of the universe ends in the 30
\* minutes before its start and none starts in the 30 minutes after its end,
\* and so every slot with the bonus is at least 30 minutes away, on each
\* side, from every session of the universe.
C23_BufferBonus ==
    Answered =>
        \A i \in DOMAIN sugg.suggestions :
            LET s == sugg.suggestions[i]
                bonus == HasReason(s, "Good buffer time around session")
                endsJustBefore ==
                    \E x \in sugg.universe : GapBefore(s, x) > 0 /\ GapBefore(s, x) < 30
                startsJustAfter ==
                    \E x \in sugg.universe : GapAfter(s, x) > 0 /\ GapAfter(s, x) < 30
            IN  /\ bonus <=> (~endsJustBefore /\ ~startsJustAfter)
                /\ bonus => \A x \in sugg.universe :
                                GapBefore(s, x) >= 30 \/ GapAfter(s, x) >= 30


\* ------------------------------------------------- the session list
Listed == response.handler = "sessionList" /\ response.status = 200

\* C22: GET /api/sessions with upcoming=true returns only sessions that are
\* not completed and are scheduled at or after the time of the call, whatever
\* startDate and endDate are supplied with it.
C22_UpcomingOnly ==
    (Listed /\ response.upcoming) =>
        \A i \in DOMAIN response.sessions :
            /\ ~response.sessions[i].completed
            /\ response.sessions[i].scheduledAt >= response.clock


\* ------------------------------------------------- the session update
PutAnswered == response'.handler = "sessionPut"

\* A supplied field the claim calls invalid.
PutBodyInvalid(body) ==
    \/ body.completed.some /\ body.completed.v.kind # "boolean"
    \/ body.scheduledAt.some /\ body.scheduledAt.v.kind # "iso"
    \/ body.duration.some /\ body.duration.v <= 0

\* The stored session s with exactly the supplied fields of body replaced.
PutExpected(s, body) ==
    [s EXCEPT !.completed = IF body.completed.some THEN body.completed.v.b ELSE @,
              !.scheduledAt = IF body.scheduledAt.some THEN body.scheduledAt.v.t ELSE @,
              !.duration = IF body.duration.some THEN body.duration.v ELSE @]

\* C26: a PUT /api/sessions/:id is all or nothing.  For an unknown id or a
\* body with any invalid supplied field, no field of any stored session
\* changes, also when other supplied fields are valid; otherwise exactly the
\* supplied fields of that one session change.
C26_PutAllOrNothing ==
    [][PutAnswered =>
          LET id == response'.id
              body == response'.body
          IN  IF (~\E s \in sessions : s.id = id) \/ PutBodyInvalid(body)
              THEN sessions' = sessions /\ response'.status >= 400
              ELSE /\ response'.status = 200
                   /\ sessions' = {IF s.id = id THEN PutExpected(s, body) ELSE s :
                                      s \in sessions}]_vars

\* A refused body with a valid field next to the invalid one, and an update
\* of two fields at once.
C26_Witness ==
    \/ /\ response.handler = "sessionPut" /\ response.status = 400
       /\ response.body.completed.some /\ response.body.completed.v.kind = "boolean"
       /\ response.body.duration.some
    \/ /\ response.handler = "sessionPut" /\ response.status = 200
       /\ response.body.completed.some /\ response.body.duration.some

\* C28: from a store without overlapping sessions, checked creations,
\* session updates and deletions executed one at a time leave the store
\* without two overlapping sessions.
C28_NoOverlapOneAtATime ==
    \A s1, s2 \in sessions : s1.id # s2.id => ~SessionsOverlap(s1, s2)


\* ------------------------------------------------- the streak figures
\* C29: for every set of completed sessions GET /api/stats answers with
\* currentStreak <= longestStreak <= totalDaysWithSessions.
C29_StreakOrder ==
    StatsAnswered =>
        /\ response.currentStreak <= response.longestStreak
        /\ response.longestStreak <= response.totalDaysWithSessions


\* ------------------------------------------------- the streak walk
\* The day of the session the loop inspects.
InspectedDay == DayStart(probe.sortedCompleted[probe.w.sessionIndex].scheduledAt)

\* C27: the current-streak walk terminates on every list of completed
\* sessions (future sessions, several sessions of one day and sessions far
\* in the past included).  Every iteration advances the session pointer or
\* moves the checked day back, not beyond the inspected session's day; the
\* loop ends with the list exhausted or, with the streak still 0, at a session
\* more than one day before today; and it ends with the value the statistics
\* report.
C27_WalkTerminates ==
    /\ <>WalkEnded
    /\ [][\/ probe'.w.sessionIndex > probe.w.sessionIndex
          \/ /\ probe'.w.checkDate < probe.w.checkDate
             /\ probe'.w.checkDate >= InspectedDay]_vars
    /\ [](probe.w.broke =>
            /\ probe.w.currentStreak = 0
            /\ probe.today - InspectedDay > MinutesPerDay)
    /\ [](WalkEnded =>
            probe.w.currentStreak =
                CurrentStreakWalk(probe.sortedCompleted, probe.today, probe.today, 1, 0))

\* The walk has ended on a list with a future session, two sessions of one
\* day and a session several days back, after stepping over an empty day.
C27_Witness ==
    /\ probe.kind = "walk" /\ WalkEnded
    /\ \E i \in DOMAIN probe.sortedCompleted :
          probe.sortedCompleted[i].scheduledAt > getCurrentDate
    /\ \E i, j \in DOMAIN probe.sortedCompleted :
          /\ i # j
          /\ DayStart(probe.sortedCompleted[i].scheduledAt)
                = DayStart(probe.sortedCompleted[j].scheduledAt)
    /\ \E i \in DOMAIN probe.sortedCompleted :
          probe.today - DayStart(probe.sortedCompleted[i].scheduledAt) >= 3 * MinutesPerDay
    /\ probe.w.currentStreak = 2


\* ------------------------------------------------- accepted suggestions
\* The session was created by accepting a suggestion before the call whose
\* response the client holds, and had not started when the call was made.
AcceptedBeforeCall(s) ==
    /\ origin[s.id].via = "accept"
    /\ s.id < sugg.asOf
    /\ sugg.clock <= s.scheduledAt

\* C30: once a suggestion is accepted, and while the created session is
\* stored and has not started, no later getSuggestions call returns a slot
\* overlapping it.
C30_AcceptedSlotNotSuggestedAgain ==
    Answered =>
        \A s \in sessions :
            AcceptedBeforeCall(s) =>
                \A i \in DOMAIN sugg.suggestions :
                    ~IntervalsOverlap(sugg.suggestions[i].suggestedStart,
                                      sugg.suggestions[i].suggestedEnd,
                                      s.scheduledAt, SessionEnd(s))

\* A call made after an acceptance still returns a slot.
C30_Witness ==
    /\ Answered
    /\ \E s \in sessions : AcceptedBeforeCall(s)
    /\ Len(sugg.suggestions) > 0


====
